---------------------------- MODULE Spec2Model ----------------------------
(***************************************************************************)
(* Model of the maintenance-task core of src/app.py: the SQLite tables of  *)
(* init_db, the daily task generator, the task assigner and the Telegram   *)
(* webhook (conversation engine), with the outbound messaging service of   *)
(* src/services/conversation_service.py.                                   *)
(*                                                                         *)
(* Tables are sequences of rows in rowid order; a fetchone() of a query    *)
(* without ORDER BY is the first matching row of the rowid scan.  The      *)
(* table conversation_states, keyed by the chat id, is a set of rows.      *)
(* Text is a sequence of tokens (words, blanks, digits, punctuation), so   *)
(* that strip(), lower(), re.match and re.sub are computed, not assumed.   *)
(***************************************************************************)
EXTENDS Integers, Sequences, FiniteSets, TLC

VARIABLES
    users,                      \* table users (id, telefone, cidade, estado, chat_id)
    auxiliary_people,           \* table auxiliary_people
    machines,                   \* table machines
    machine_managers,           \* table machine_managers
    maintenance_task_templates, \* table maintenance_task_templates
    maintenance_tasks,          \* table maintenance_tasks (instances)
    maintenance_task_items,     \* table maintenance_task_items
    conversation_states,        \* table conversation_states
    gen,                        \* the generator runs in progress, one per scheduler
    reportCalls,                \* the send_gerente_report calls made by the webhook
    checklists,                 \* the checklist messages built by the assigner
    cache,                      \* the in-memory cache of the weather lookups
    page,                       \* what the last /dashboard request looked up
    pdf,                        \* the report files written under static/reports
    requests,                   \* the /webhook requests being handled by a thread
    http                        \* outcome of the last /webhook request

vars == << users, auxiliary_people, machines, machine_managers,
           maintenance_task_templates, maintenance_tasks,
           maintenance_task_items, conversation_states, gen, reportCalls,
           checklists, cache, page, pdf, requests, http >>

dbvars == << users, auxiliary_people, machines, machine_managers,
             maintenance_task_templates, maintenance_tasks,
             maintenance_task_items, conversation_states >>

-----------------------------------------------------------------------------
(* Bounds of the model *)

\* most rows maintenance_tasks may hold before the assigner is no longer run
MaxInstances == 4
\* most rows auxiliary_people may hold before the owner flow stops inserting
MaxAux == 4
\* most send_gerente_report calls recorded
MaxReports == 2
\* the largest id the bulk replace of the auxiliary people may assign
MaxAuxId == 7

-----------------------------------------------------------------------------
(* Values *)

NULL == "<NULL>"

\* str(datetime.now().date()) of the day the model runs on, and of the day before
Today == "2024-10-02"
Yesterday == "2024-10-01"

Chats == {"101", "102"}

STATE_INITIAL == "initial"
STATE_COLLECT_NAME == "collect_name"
STATE_COLLECT_EMAIL == "collect_email"
STATE_COLLECT_PHONE == "collect_phone"
STATE_COLLECT_ROLE == "collect_role"

MACHINE_MODELS ==
    [ s \in {"R Series", "J Series 7200", "M Series"} |->
        CASE s = "R Series" -> {"8260R", "8285R", "8310R", "8335R", "8360R"}
          [] s = "J Series 7200" -> {"7200J", "7215J", "7230J"}
          [] s = "M Series" -> {"6155M", "6175M", "6195M"} ]

infer_series_from_model(model) ==
    IF \E s \in DOMAIN MACHINE_MODELS : model \in MACHINE_MODELS[s]
    THEN CHOOSE s \in DOMAIN MACHINE_MODELS : model \in MACHINE_MODELS[s]
    ELSE NULL

machine_series_manuals == {"R Series", "J Series 7200", "M Series"}

-----------------------------------------------------------------------------
(* Sequences *)

RECURSIVE Join(_)
Join(s) == IF s = << >> THEN "" ELSE Head(s) \o Join(Tail(s))

SeqRange(s) == { s[i] : i \in DOMAIN s }

\* AUTOINCREMENT over a table no row was deleted from
NextId(table) == Len(table) + 1

-----------------------------------------------------------------------------
(* Text: a message text is a sequence of tokens *)

Blank == " "

DigitTokens == {"0", "1", "2", "3", "4", "5", "9"}

\* str.lower() on the word tokens of the model
Lower(w) ==
    CASE w = "GERENTE" -> "gerente"
      [] w = "Gerente" -> "gerente"
      [] w = "MOTORISTA" -> "motorista"
      [] w = "Motorista" -> "motorista"
      [] w = "Tarefa" -> "tarefa"
      [] w = "TAREFA" -> "tarefa"
      [] w = "CONCLUÍDA" -> "concluída"
      [] w = "Concluída" -> "concluída"
      [] w = "Ana" -> "ana"
      [] OTHER -> w

RECURSIVE LStrip(_)
LStrip(t) == IF t # << >> /\ Head(t) = Blank THEN LStrip(Tail(t)) ELSE t

RECURSIVE RStrip(_)
RStrip(t) ==
    IF t # << >> /\ t[Len(t)] = Blank THEN RStrip(SubSeq(t, 1, Len(t) - 1)) ELSE t

\* str.strip(), the text as a string
Strip(t) == RStrip(LStrip(t))

\* int() of a run of digit tokens
RECURSIVE ToInt(_)
ToInt(d) == IF d = << >> THEN 0
            ELSE 10 * ToInt(SubSeq(d, 1, Len(d) - 1))
                 + (CASE d[Len(d)] = "0" -> 0 [] d[Len(d)] = "1" -> 1
                      [] d[Len(d)] = "2" -> 2 [] d[Len(d)] = "3" -> 3
                      [] d[Len(d)] = "4" -> 4 [] d[Len(d)] = "5" -> 5
                      [] d[Len(d)] = "9" -> 9)

\* the longest run of digit tokens at the head of t (the group (\d+))
RECURSIVE DigitRun(_)
DigitRun(t) == IF t # << >> /\ Head(t) \in DigitTokens
               THEN << Head(t) >> \o DigitRun(Tail(t)) ELSE << >>


\* re.match(r'Tarefa (\d+) concluída', text, re.IGNORECASE): the number matched
\* (a run of digits), or << >> when the text does not match.  The match is
\* anchored at the start of the text only.
MatchTarefa(t) ==
    IF /\ Len(t) >= 5
       /\ Lower(t[1]) = "tarefa"
       /\ t[2] = Blank
    THEN LET d == DigitRun(SubSeq(t, 3, Len(t)))
             rest == SubSeq(t, 3 + Len(d), Len(t))
         IN IF /\ d # << >>
               /\ Len(rest) >= 2
               /\ rest[1] = Blank
               /\ Lower(rest[2]) = "concluída"
            THEN d ELSE << >>
    ELSE << >>

\* the digits with the country code left in
NormalizePhone_KeepPrefix(p) == Join(SelectSeq(p, LAMBDA c : c \in DigitTokens))

\* re.sub(r'\D', '', phone_number)[2:]
NormalizePhone(p) ==
    LET digits == SelectSeq(p, LAMBDA c : c \in DigitTokens)
    IN Join(SubSeq(digits, 3, Len(digits)))

-----------------------------------------------------------------------------
(* Python literals: str(list) when a template is stored, ast.literal_eval  *)
(* of the LLM response and eval of the stored text when it is read back    *)

\* the task strings that hold an apostrophe: repr() quotes them with "
HasApostrophe(s) == s \in {"Drenar d'água"}

\* repr(s) of a str, and of None
Repr(s) == IF s = NULL THEN << "None" >>
           ELSE IF HasApostrophe(s) THEN << "\"", s, "\"" >> ELSE << "'", s, "'" >>

\* str(lst) of a list of str: '[' repr, ', ' repr ... ']'
RECURSIVE ReprElems(_)
ReprElems(lst) ==
    IF lst = << >> THEN << >>
    ELSE IF Len(lst) = 1 THEN Repr(lst[1])
    ELSE Repr(lst[1]) \o << ",", Blank >> \o ReprElems(Tail(lst))

PyStr(lst) == << "[" >> \o ReprElems(lst) \o << "]" >>

Quotes == {"'", "\""}
ParseError == [kind |-> "error", value |-> << >>]

\* the elements after the first one: nothing, or a comma and more elements
RECURSIVE ParseElems(_)
ParseRest(first, rest) ==
    LET after == LStrip(rest) IN
    IF after = << >> THEN [kind |-> "list", value |-> << first >>]
    ELSE IF Head(after) = ","
         THEN LET more == ParseElems(Tail(after)) IN
              IF more.kind = "list"
              THEN [kind |-> "list", value |-> << first >> \o more.value]
              ELSE ParseError
         ELSE ParseError

\* the elements of a list display after its '[': quoted strings or None,
\* separated by commas, blanks allowed around the commas
ParseElems(t) ==
    LET u == LStrip(t) IN
    IF Len(u) >= 3 /\ u[1] \in Quotes /\ u[3] = u[1] /\ u[2] \notin Quotes
    THEN ParseRest(u[2], SubSeq(u, 4, Len(u)))
    ELSE IF Len(u) >= 1 /\ u[1] = "None"
    THEN ParseRest(NULL, SubSeq(u, 2, Len(u)))
    ELSE ParseError

\* ast.literal_eval(text): a list of str, a str, or an error
literal_eval(text) ==
    LET t == Strip(text) IN
    IF Len(t) >= 2 /\ t[1] = "[" /\ t[Len(t)] = "]"
    THEN IF Strip(SubSeq(t, 2, Len(t) - 1)) = << >>
         THEN [kind |-> "list", value |-> << >>]
         ELSE ParseElems(SubSeq(t, 2, Len(t) - 1))
    ELSE IF Len(t) = 3 /\ t[1] \in Quotes /\ t[3] = t[1]
         THEN [kind |-> "str", value |-> << t[2] >>]
         ELSE ParseError

\* eval(tasks_row[0]) of a stored template text
py_eval(text) == literal_eval(text)

-----------------------------------------------------------------------------
(* Weather lookups: get_lat_lon and get_weather behind cache.cached *)

\* the geocoding service: the coordinates of a city
GeoApi(city, state) ==
    IF city = "Uberlândia" THEN [lat |-> "-18.91", lon |-> "-48.27"]
    ELSE [lat |-> "-19.75", lon |-> "-47.93"]

\* the weather service: the weather at a pair of coordinates
WeatherApi(lat, lon) ==
    IF lat = "-18.91" THEN [temperature |-> "28", description |-> "céu limpo"]
    ELSE [temperature |-> "31", description |-> "nublado"]

\* cache.cached(key_prefix=...) uses the prefix as the key as it is written:
\* the braces are no format fields, every call of a function has one key
LatLonKey == "lat_lon_{city}_{state}"
WeatherKey == "weather_{lat}_{lon}"

\* an entry is << >> (absent or expired) or << value >>
CacheEmpty == [ key \in {LatLonKey, WeatherKey} |-> << >> ]

\* whether the services answer during a request: when they do not,
\* requests.get raises
Networks == {"up", "down"}

\* get_lat_lon(city, state) on the cache c: the cache afterwards, whether the
\* call raised, and the value returned
get_lat_lon(c, net, city, state) ==
    IF c[LatLonKey] # << >>
    THEN [cache |-> c, raised |-> FALSE, value |-> c[LatLonKey]]
    ELSE IF net = "down"
    THEN [cache |-> c, raised |-> TRUE, value |-> << >>]
    ELSE [cache |-> [c EXCEPT ![LatLonKey] = << GeoApi(city, state) >>],
          raised |-> FALSE, value |-> << GeoApi(city, state) >>]

\* get_weather(lat, lon) on the cache c
get_weather(c, net, lat, lon) ==
    IF c[WeatherKey] # << >>
    THEN [cache |-> c, raised |-> FALSE, value |-> c[WeatherKey]]
    ELSE IF net = "down"
    THEN [cache |-> c, raised |-> TRUE, value |-> << >>]
    ELSE [cache |-> [c EXCEPT ![WeatherKey] = << WeatherApi(lat, lon) >>],
          raised |-> FALSE, value |-> << WeatherApi(lat, lon) >>]

\* lat, lon = get_lat_lon(cidade, estado); weather = get_weather(lat, lon):
\* the cache afterwards, whether a call raised, and the two values
LookupWeather(c, net, cidade, estado) ==
    LET g == get_lat_lon(c, net, cidade, estado) IN
    IF g.raised
    THEN [cache |-> c, raised |-> TRUE, lat_lon |-> << >>, weather |-> << >>]
    ELSE LET w == get_weather(g.cache, net, g.value[1].lat, g.value[1].lon) IN
         [cache |-> w.cache, raised |-> w.raised,
          lat_lon |-> g.value, weather |-> w.value]

\* the timeout of an entry elapses
CacheExpire ==
    /\ \E key \in DOMAIN cache :
          /\ cache[key] # << >>
          /\ cache' = [cache EXCEPT ![key] = << >>]
    /\ UNCHANGED << dbvars, gen, reportCalls, checklists, page, pdf, http, requests >>

NoPage == [status |-> "none", cidade |-> NULL, estado |-> NULL,
           lat_lon |-> << >>, weather |-> << >>]

\* the route /dashboard of a logged-in user: the lookups of lines 868-871;
\* get_news then makes a request of its own
dashboard(user_id) ==
    \E net \in Networks :
        LET user == SelectSeq(users, LAMBDA u : u.id = user_id)[1]
            looked == LookupWeather(cache, net, user.cidade, user.estado)
        IN /\ cache' = looked.cache
           /\ page' = [status |-> IF net = "down" THEN "error" ELSE "rendered",
                       cidade |-> user.cidade, estado |-> user.estado,
                       lat_lon |-> looked.lat_lon, weather |-> looked.weather]
           /\ UNCHANGED << dbvars, gen, reportCalls, checklists, pdf, http, requests >>

-----------------------------------------------------------------------------
(* The database after init_db and a first day of use *)

InitUsers ==
    << [id |-> 1, telefone |-> "11", cidade |-> "Uberlândia", estado |-> "MG",
        chat_id |-> NULL],
       [id |-> 2, telefone |-> "12", cidade |-> "Uberaba", estado |-> "MG",
        chat_id |-> NULL] >>

InitAuxiliaryPeople ==
    << [id |-> 1, user_id |-> 1, name |-> "João", email |-> "joao@x",
        telefone |-> "21", chat_id |-> NULL, role |-> "motorista"],
       [id |-> 2, user_id |-> 1, name |-> "Maria", email |-> "maria@x",
        telefone |-> "22", chat_id |-> NULL, role |-> "gerente"],
       [id |-> 3, user_id |-> 2, name |-> "Pedro", email |-> "pedro@x",
        telefone |-> "23", chat_id |-> NULL, role |-> "motorista"] >>

InitMachines ==
    << [id |-> 1, user_id |-> 1, motorista_id |-> 1, model |-> "7200J"],
       [id |-> 2, user_id |-> 1, motorista_id |-> 1, model |-> "6155M"],
       [id |-> 3, user_id |-> 2, motorista_id |-> 3, model |-> "7200J"] >>

\* the manager assignments the owner may have made in the machine form
InitMachineManagers ==
    { << >>, << [machine_id |-> 1, gerente_id |-> 2] >> }

\* what the day before left behind: a template, and an instance of driver 1
\* whose only item was not completed
InitTemplates ==
    << [model |-> "7200J", cidade |-> "Uberlândia", estado |-> "MG",
        date |-> Yesterday, tasks |-> PyStr(<< "Verificar óleo" >>)] >>

InitTasks == << [id |-> 1, motorista_id |-> 1, date |-> Yesterday] >>

InitItems ==
    << [id |-> 1, maintenance_task_id |-> 1, task |-> "Verificar óleo",
        status |-> "pendente"] >>

\* the schedulers that may run the generator: the one of the process, and the
\* one of the reloader's child process that app.run(debug=True) starts
Runs == {1, 2}

\* a run: where it is (pc), the combinations it read, the next one to process
\* (k), and what it has done so far: the LLM calls it made (llm), the rows it
\* inserted (inserted), and whether a template of the day existed when it
\* read its guard (existed); with it the module global llm of the run's
\* process (client) and the ChatPDF clients the run constructed (clients)
GenIdle == [pc |-> "idle", combos |-> << >>, k |-> 1, llm |-> 0,
            inserted |-> 0, existed |-> FALSE, client |-> NULL, clients |-> 0]

\* get_llm(): "global llm; llm = None; if llm is None: llm = ChatPDF(...);
\* llm.start()": the global as the call leaves it, and the clients constructed
get_llm(llm) ==
    LET reset == NULL IN
    IF reset = NULL THEN [llm |-> "ChatPDF", constructed |-> 1]
    ELSE [llm |-> reset, constructed |-> 0]

\* the threads of the development server that may handle a /webhook request
\* at the same time (app.run serves each request in a thread of its own)
RequestIds == {1, 2}

\* a request: where its thread is (pc), and what it has read so far: the
\* chat id and text of the update, the state of the chat's conversation row
\* and the user the chat id belongs to
RequestIdle == [pc |-> "idle", chat_id |-> NULL, text |-> << >>,
                user_state |-> NULL, user |-> << >>]

\* everything but the templates and the manager assignments
InitBase ==
    /\ users = InitUsers
    /\ auxiliary_people = InitAuxiliaryPeople
    /\ machines = InitMachines
    /\ maintenance_tasks = InitTasks
    /\ maintenance_task_items = InitItems
    /\ conversation_states = {}
    /\ gen = [r \in Runs |-> GenIdle]
    /\ reportCalls = << >>
    /\ checklists = << >>
    /\ cache = CacheEmpty
    /\ page = NoPage
    /\ pdf = {}
    /\ requests = [q \in RequestIds |-> RequestIdle]
    /\ http = "none"

Init ==
    /\ InitBase
    /\ machine_managers \in InitMachineManagers
    /\ maintenance_task_templates = InitTemplates

-----------------------------------------------------------------------------
(* Task generator: generate_maintenance_tasks, one step per database access *)

\* what llm.qa.invoke(prompt)["result"] may answer, or that the call raised
Responses ==
    { << "[", "'", "Verificar óleo", "'", ",", Blank, "'", "Limpar filtro", "'", "]" >>,
      << Blank, "[", "\"", "Drenar d'água", "\"", "]", Blank >>,
      << "'", "Verificar óleo", "'" >>,
      << "Aqui", Blank, "estão", Blank, "as", Blank, "tarefas" >> }

\* how the try block of a combination goes: get_llm or create_qa_session
\* raises before the lookups ("raise"), or the lookups are made with the
\* services up or down and llm.qa.invoke raises ("invoke raise") or answers
LLMOutcomes ==
    { [kind |-> "raise", text |-> << >>, net |-> "up"] }
    \cup { [kind |-> "invoke raise", text |-> << >>, net |-> n] : n \in Networks }
    \cup { [kind |-> "response", text |-> t, net |-> n] :
             t \in Responses, n \in Networks }

\* a guard that queries the instances instead of the templates
ExistingTasks_WrongTable(date) ==
    \E i \in DOMAIN maintenance_tasks : maintenance_tasks[i].date = date

\* a guard that also holds a run back while another run is between its
\* read and its last insert
ExistingTasks_Locked(date) ==
    \/ \E i \in DOMAIN maintenance_task_templates :
          maintenance_task_templates[i].date = date
    \/ \E r \in Runs : gen[r].pc \in {"checked", "loop"}

\* a guard that never finds a template
ExistingTasks_Never(date) == FALSE

\* SELECT 1 FROM maintenance_task_templates WHERE date = ?
ExistingTasks(date) ==
    \E i \in DOMAIN maintenance_task_templates :
        maintenance_task_templates[i].date = date

\* SELECT DISTINCT m.model, u.cidade, u.estado FROM machines m JOIN users u
RECURSIVE Distinct(_)
Distinct(s) ==
    IF s = << >> THEN << >>
    ELSE LET init == Distinct(SubSeq(s, 1, Len(s) - 1))
             last == s[Len(s)]
         IN IF last \in SeqRange(init) THEN init ELSE Append(init, last)

RECURSIVE JoinMachinesUsers(_)
JoinMachinesUsers(ms) ==
    IF ms = << >> THEN << >>
    ELSE LET m == Head(ms)
             us == SelectSeq(users, LAMBDA u : u.id = m.user_id)
         IN [ i \in DOMAIN us |->
                [model |-> m.model, cidade |-> us[i].cidade, estado |-> us[i].estado] ]
            \o JoinMachinesUsers(Tail(ms))

Combinations == Distinct(JoinMachinesUsers(machines))

\* a variant that stores a one-item placeholder when the response is no list
TasksOfOutcome_Placeholder(o) ==
    IF o.kind # "response" THEN [isNone |-> TRUE, value |-> << >>]
    ELSE LET v == literal_eval(Strip(o.text)) IN
         IF v.kind = "list" THEN [isNone |-> FALSE, value |-> v.value]
         ELSE [isNone |-> FALSE, value |-> << "Verificar óleo" >>]

\* the value of maintenance_tasks after the try block of one combination:
\* the list, or NULL (None)
TasksOfOutcome(o) ==
    IF o.kind # "response" THEN [isNone |-> TRUE, value |-> << >>]
    ELSE LET v == literal_eval(Strip(o.text)) IN
         IF v.kind = "list" THEN [isNone |-> FALSE, value |-> v.value]
         ELSE [isNone |-> TRUE, value |-> << >>]

\* lines 345-353: the guard
GenCheck(r) ==
    /\ gen[r].pc = "idle"
    /\ gen' = [gen EXCEPT ![r].pc =
                      IF ExistingTasks(Today) THEN "returned" ELSE "checked",
                  ![r].existed = \E i \in DOMAIN maintenance_task_templates :
                                    maintenance_task_templates[i].date = Today]
    /\ UNCHANGED << dbvars, reportCalls, checklists, cache, page, pdf, http, requests >>

\* lines 355-360: the combinations in use
GenReadCombos(r) ==
    /\ gen[r].pc = "checked"
    /\ gen' = [gen EXCEPT ![r].pc = IF Combinations = << >> THEN "done" ELSE "loop",
                          ![r].combos = Combinations]
    /\ UNCHANGED << dbvars, reportCalls, checklists, cache, page, pdf, http, requests >>

\* lines 368-418: one turn of the loop, for the k-th combination, when the
\* try block ends as o says
GenComboOutcome(r, o) ==
    /\ gen[r].pc = "loop"
    /\ LET combo == gen[r].combos[gen[r].k]
           hasManual == infer_series_from_model(combo.model) \in machine_series_manuals
           last == gen[r].k = Len(gen[r].combos)
           looked == IF hasManual /\ o.kind # "raise"
                     THEN LookupWeather(cache, o.net, combo.cidade, combo.estado)
                     ELSE [cache |-> cache, raised |-> TRUE,
                           lat_lon |-> << >>, weather |-> << >>]
       IN   LET tasks == IF looked.raised THEN [isNone |-> TRUE, value |-> << >>]
                         ELSE TasksOfOutcome(o)
            IN
            /\ cache' = looked.cache
            /\ maintenance_task_templates' =
                 IF hasManual /\ ~tasks.isNone
                 THEN Append(maintenance_task_templates,
                             [model |-> combo.model, cidade |-> combo.cidade,
                              estado |-> combo.estado, date |-> Today,
                              tasks |-> PyStr(tasks.value)])
                 ELSE maintenance_task_templates
            /\ gen' = [gen EXCEPT ![r].k = @ + 1,
                                  ![r].llm = IF hasManual THEN @ + 1 ELSE @,
                                  ![r].client =
                                      IF hasManual THEN get_llm(@).llm ELSE @,
                                  ![r].clients =
                                      IF hasManual
                                      THEN @ + get_llm(gen[r].client).constructed
                                      ELSE @,
                                  ![r].inserted =
                                      IF hasManual /\ ~tasks.isNone THEN @ + 1 ELSE @,
                                  ![r].pc = IF last THEN "done" ELSE "loop"]
    /\ UNCHANGED << users, auxiliary_people, machines, machine_managers,
                    maintenance_tasks, maintenance_task_items,
                    conversation_states, reportCalls, checklists, page, pdf, http, requests >>

GenCombo(r) == \E o \in LLMOutcomes : GenComboOutcome(r, o)

\* the scheduler triggers the job again (interval trigger, or a restart of the
\* application: start_scheduler runs the job at once)
GenTrigger(r) ==
    /\ gen[r].pc \in {"done", "returned"}
    /\ gen' = [gen EXCEPT ![r] = [GenIdle EXCEPT !.client = gen[r].client]]
    /\ UNCHANGED << dbvars, reportCalls, checklists, cache, page, pdf, http, requests >>

-----------------------------------------------------------------------------
(* Outbound messaging: ConversationService *)

\* send_telegram_message / send_whatsapp_message: the HTTP status decides the
\* text returned, the call returns either way
send_telegram_message(message, recipient) == "returned"

\* send_message(message, channel, recipient=None): what the call does, that
\* is "returned" or the exception it raises
send_message(message, channel, recipient) ==
    IF channel = "telegram"
    THEN IF recipient = NULL THEN "ValueError"
         ELSE send_telegram_message(message, recipient)
    ELSE IF channel = "whatsapp"
         THEN IF recipient = NULL THEN "ValueError"
              ELSE send_telegram_message(message, recipient)
         ELSE "ValueError"

\* the webhook's call conversation_service.send_message(response_message, chat_id):
\* the chat id is passed in the place of the channel
Reply(message, chat_id) == send_message(message, chat_id, NULL)

\* the call of line 1527 passes reply_markup, a keyword send_message does not take
ReplyWithMarkup(message, chat_id) == "TypeError"

-----------------------------------------------------------------------------
(* Task assigner: assign_tasks_to_motoristas, one run *)

\* SELECT ... FROM auxiliary_people a JOIN users u ON a.user_id = u.id
\* WHERE a.role = 'motorista'
RECURSIVE Motoristas(_)
Motoristas(people) ==
    IF people = << >> THEN << >>
    ELSE LET a == Head(people)
             us == SelectSeq(users, LAMBDA u : u.id = a.user_id)
         IN (IF a.role = "motorista"
             THEN [ i \in DOMAIN us |->
                      [motorista_id |-> a.id, motorista_name |-> a.name,
                       telefone |-> a.telefone, cidade |-> us[i].cidade,
                       estado |-> us[i].estado] ]
             ELSE << >>)
            \o Motoristas(Tail(people))

\* SELECT DISTINCT m.model FROM machines m WHERE m.motorista_id = ?
ModelsOf(motorista_id) ==
    LET ms == SelectSeq(machines, LAMBDA m : m.motorista_id = motorista_id)
    IN Distinct([ i \in DOMAIN ms |-> ms[i].model ])

\* the (driver, model) pairs in the order the two loops visit them
RECURSIVE AssignPairs(_)
AssignPairs(ms) ==
    IF ms = << >> THEN << >>
    ELSE LET d == Head(ms)
             models == ModelsOf(d.motorista_id)
         IN [ i \in DOMAIN models |->
                [motorista_id |-> d.motorista_id,
                 motorista_name |-> d.motorista_name, telefone |-> d.telefone,
                 cidade |-> d.cidade, estado |-> d.estado, model |-> models[i]] ]
            \o AssignPairs(Tail(ms))

\* a lookup that leaves the city and the state out of the WHERE clause
TemplateRows_AnyPlace(model, cidade, estado, date) ==
    SelectSeq(maintenance_task_templates,
              LAMBDA t : t.model = model /\ t.date = date)

\* SELECT tasks FROM maintenance_task_templates WHERE model = ? AND cidade = ?
\* AND estado = ? AND date = ?
TemplateRows(model, cidade, estado, date) ==
    SelectSeq(maintenance_task_templates,
              LAMBDA t : /\ t.model = model /\ t.cidade = cidade
                         /\ t.estado = estado /\ t.date = date)

\* lines 466-482: the instance row and one item row per task
InsertInstance(tables, motorista_id, date, tasks) ==
    LET maintenance_task_id == NextId(tables.tasks)
    IN [tables EXCEPT
          !.tasks = Append(tables.tasks,
                           [id |-> maintenance_task_id,
                            motorista_id |-> motorista_id, date |-> date]),
          !.items = tables.items \o
                    [ i \in DOMAIN tasks |->
                        [id |-> Len(tables.items) + i,
                         maintenance_task_id |-> maintenance_task_id,
                         task |-> tasks[i], status |-> "pendente"] ]]

\* the checklist text of lines 518-520: line idx shows idx and the task
ChecklistLines(maintenance_tasks_list) ==
    [ idx \in DOMAIN maintenance_tasks_list |->
        [idx |-> idx, task |-> maintenance_tasks_list[idx]] ]

\* send_checklist_to_motorista: without a chat id nothing is built; with one
\* the message is built and the send, whatever it raises, is caught and
\* logged.  for_instance is not a parameter: it names the instance the same
\* iteration of the assigner has just inserted.
send_checklist_to_motorista(sent, people, motorista_name, motorista_telefone, maintenance_tasks_list, for_instance) ==
    LET motorista_info == SelectSeq(people,
                                    LAMBDA a : a.telefone = motorista_telefone)
        chat_id == IF motorista_info # << >> THEN motorista_info[1].chat_id
                   ELSE NULL
    IN IF chat_id = NULL THEN sent
       ELSE Append(sent, [chat_id |-> chat_id,
                          lines |-> ChecklistLines(maintenance_tasks_list),
                          outcome |-> Reply("checklist", chat_id),
                          for_instance |-> for_instance])

\* a block that keeps what it wrote before the failing statement: the
\* instance row and the items up to the failing one
InsertFailed_Partial(tables, motorista_id, date, tasks) ==
    LET bad == CHOOSE i \in DOMAIN tasks :
                  tasks[i] = NULL /\ \A j \in 1..(i - 1) : tasks[j] # NULL
        maintenance_task_id == NextId(tables.tasks)
    IN [tables EXCEPT
          !.raised = TRUE,
          !.tasks = Append(tables.tasks,
                           [id |-> maintenance_task_id,
                            motorista_id |-> motorista_id, date |-> date]),
          !.items = tables.items \o
                    [ i \in 1..(bad - 1) |->
                        [id |-> Len(tables.items) + i,
                         maintenance_task_id |-> maintenance_task_id,
                         task |-> tasks[i], status |-> "pendente"] ]]

\* lines 466-482 when an INSERT of an item raises (task is NOT NULL): the
\* exception leaves the block "with connect_db() as conn", whose exit rolls
\* the transaction back, the instance row and the items before it included
InsertFailed(tables, motorista_id, date, tasks) ==
    [tables EXCEPT !.raised = TRUE]

\* the two loops of lines 439-487 over the pairs still to visit; an
\* exception ends them
RECURSIVE AssignLoop(_, _)
AssignLoop(pairs, tables) ==
    IF pairs = << >> \/ tables.raised THEN tables
    ELSE LET p == Head(pairs)
             tasks_row == TemplateRows(p.model, p.cidade, p.estado, Today)
         IN AssignLoop(Tail(pairs),
                IF tasks_row # << >>
                THEN LET maintenance_tasks_list == py_eval(tasks_row[1].tasks).value
                         inserted == InsertInstance(tables, p.motorista_id, Today,
                                                    maintenance_tasks_list)
                     IN IF NULL \in SeqRange(maintenance_tasks_list)
                        THEN InsertFailed(tables, p.motorista_id, Today,
                                          maintenance_tasks_list)
                        ELSE [inserted EXCEPT
                                !.checklists =
                                    send_checklist_to_motorista(
                                        tables.checklists, auxiliary_people,
                                        p.motorista_name, p.telefone,
                                        maintenance_tasks_list,
                                        NextId(tables.tasks))]
                ELSE tables)

assign_tasks_to_motoristas ==
    /\ Len(maintenance_tasks) < MaxInstances
    /\ LET after == AssignLoop(AssignPairs(Motoristas(auxiliary_people)),
                               [tasks |-> maintenance_tasks,
                                items |-> maintenance_task_items,
                                checklists |-> checklists,
                                raised |-> FALSE])
       IN /\ maintenance_tasks' = after.tasks
          /\ maintenance_task_items' = after.items
          /\ checklists' = after.checklists
          \* the exception leaves the route /assign_tasks
          /\ http' = IF after.raised THEN "IntegrityError" ELSE http
    /\ UNCHANGED << users, auxiliary_people, machines, machine_managers,
                    maintenance_task_templates, conversation_states, gen,
                    reportCalls, cache, page, pdf, requests >>

-----------------------------------------------------------------------------
(* People management: the route /pessoas_auxiliares, POST *)

\* AUTOINCREMENT: one more than the largest id ever assigned.  Every request
\* of the model that deletes rows inserts at least one, so the largest id
\* ever assigned is in the table when a request starts.
RECURSIVE MaxId(_)
MaxId(table) ==
    IF table = << >> THEN 0
    ELSE LET m == MaxId(Tail(table)) IN
         IF Head(table).id > m THEN Head(table).id ELSE m

\* lines 1177-1194: "if name and email_aux and telefone_aux and role"
CompleteEntries(form) ==
    SelectSeq(form, LAMBDA e : /\ e.name # "" /\ e.email # ""
                                /\ e.telefone # "" /\ e.role # "")

\* whether one of the INSERTs raises: telefone is UNIQUE
ReplaceFails(kept, entries) ==
    \/ \E i \in DOMAIN entries, k \in DOMAIN kept :
          entries[i].telefone = kept[k].telefone
    \/ \E i, j \in DOMAIN entries :
          i # j /\ entries[i].telefone = entries[j].telefone

\* lines 1142-1217: DELETE FROM auxiliary_people WHERE user_id = ?, then one
\* INSERT per complete entry of the form, in one transaction; an exception
\* rolls it back and is answered with an error message.  No statement
\* touches machines, machine_managers or maintenance_tasks, and the
\* connection does not enable foreign keys.
pessoas_auxiliares(user_id, form) ==
    LET kept == SelectSeq(auxiliary_people, LAMBDA a : a.user_id # user_id)
        entries == CompleteEntries(form)
        first == MaxId(auxiliary_people) + 1
        inserted == [ i \in DOMAIN entries |->
                        [id |-> first + i - 1, user_id |-> user_id,
                         name |-> entries[i].name, email |-> entries[i].email,
                         telefone |-> entries[i].telefone,
                         chat_id |-> entries[i].chat_id,
                         role |-> entries[i].role] ]
    IN /\ MaxId(auxiliary_people) + Len(entries) <= MaxAuxId
       /\ auxiliary_people' = IF ReplaceFails(kept, entries) THEN auxiliary_people
                              ELSE kept \o inserted
       /\ UNCHANGED << users, machines, machine_managers,
                       maintenance_task_templates, maintenance_tasks,
                       maintenance_task_items, conversation_states, gen,
                       reportCalls, checklists, cache, page, pdf, http, requests >>

-----------------------------------------------------------------------------
(* Report content: generate_gerente_report and generate_gerente_report_pdf *)

\* the rows of the join of lines 1540-1545 for one person: one row per
\* (machine_managers row of the manager, machine of that row the person operates)
SubordinateRows(a, gerente_id) ==
    LET hits == { ij \in (DOMAIN machine_managers) \X (DOMAIN machines) :
                    /\ machine_managers[ij[1]].gerente_id = gerente_id
                    /\ machines[ij[2]].id = machine_managers[ij[1]].machine_id
                    /\ machines[ij[2]].motorista_id = a.id }
    IN [ k \in 1..Cardinality(hits) |->
           [motorista_id |-> a.id, motorista_name |-> a.name] ]

\* SELECT ap.id, ap.name FROM auxiliary_people ap JOIN machine_managers mm
\* ON mm.gerente_id = ? JOIN machines m ON m.id = mm.machine_id AND
\* m.motorista_id = ap.id
RECURSIVE Subordinates(_, _)
Subordinates(people, gerente_id) ==
    IF people = << >> THEN << >>
    ELSE SubordinateRows(Head(people), gerente_id)
         \o Subordinates(Tail(people), gerente_id)

\* a query that leaves the status out of the WHERE clause
CompletedTasks_AnyStatus(motorista_id) ==
    LET rows == SelectSeq(maintenance_task_items,
                   LAMBDA mti :
                     \E i \in DOMAIN maintenance_tasks :
                        /\ maintenance_tasks[i].id = mti.maintenance_task_id
                        /\ maintenance_tasks[i].motorista_id = motorista_id
                        /\ maintenance_tasks[i].date = Today)
    IN [ k \in DOMAIN rows |-> [task |-> rows[k].task, status |-> rows[k].status] ]

\* SELECT mti.task, mti.status FROM maintenance_task_items mti JOIN
\* maintenance_tasks mt ON mti.maintenance_task_id = mt.id WHERE
\* mt.motorista_id = ? AND mt.date = ? AND mti.status = 'concluída'
CompletedTasks(motorista_id) ==
    LET rows == SelectSeq(maintenance_task_items,
                   LAMBDA mti :
                     /\ mti.status = "concluída"
                     /\ \E i \in DOMAIN maintenance_tasks :
                           /\ maintenance_tasks[i].id = mti.maintenance_task_id
                           /\ maintenance_tasks[i].motorista_id = motorista_id
                           /\ maintenance_tasks[i].date = Today)
    IN [ k \in DOMAIN rows |-> [task |-> rows[k].task, status |-> rows[k].status] ]

\* report_data: one section per row of motoristas that has completed tasks
RECURSIVE ReportData(_)
ReportData(motoristas) ==
    IF motoristas = << >> THEN << >>
    ELSE LET completed_tasks == CompletedTasks(Head(motoristas).motorista_id) IN
         (IF completed_tasks # << >>
          THEN << [motorista_name |-> Head(motoristas).motorista_name,
                   tasks |-> completed_tasks] >>
          ELSE << >>)
         \o ReportData(Tail(motoristas))

NoSubordinates == "Nenhum motorista subordinado encontrado para o gerente."
NoCompletedTasks == "Nenhuma tarefa concluída para os motoristas subordinados ao gerente."

\* what a report says: an explanatory message, or the sections
ReportOf(motoristas) ==
    IF motoristas = << >> THEN [message |-> NoSubordinates, sections |-> << >>]
    ELSE IF ReportData(motoristas) = << >>
    THEN [message |-> NoCompletedTasks, sections |-> << >>]
    ELSE [message |-> "", sections |-> ReportData(motoristas)]

\* the text report
generate_gerente_report(gerente_id) ==
    ReportOf(Subordinates(auxiliary_people, gerente_id))

\* the PDF report: the same, with SELECT DISTINCT for the drivers
generate_gerente_report_pdf(gerente_id) ==
    ReportOf(Distinct(Subordinates(auxiliary_people, gerente_id)))

\* the file static/reports/relatorio_gerente_<id>.pdf is written anew
WritePdf(files, gerente_id) ==
    { f \in files : f.gerente_id # gerente_id }
    \cup { [gerente_id |-> gerente_id,
            content |-> generate_gerente_report_pdf(gerente_id)] }

\* lines 1592-1598: SELECT chat_id FROM auxiliary_people WHERE id = ? AND role = 'gerente'
GerenteInfo(gerente_id) ==
    SelectSeq(auxiliary_people,
              LAMBDA a : a.id = gerente_id /\ a.role = "gerente")

\* what send_gerente_report leaves behind: for a manager, the file; the
\* messages that follow do not change the tables
SendReport(files, gerente_id) ==
    IF GerenteInfo(gerente_id) # << >> THEN WritePdf(files, gerente_id) ELSE files

-----------------------------------------------------------------------------
(* Conversation engine: telegram_webhook, one request *)

\* text.lower() of a text
LowerText(t) == Join([ i \in DOMAIN t |-> Lower(t[i]) ])

\* SELECT * FROM conversation_states WHERE chat_id = ?
StateRows(chat_id) == { row \in conversation_states : row.chat_id = chat_id }

UserState(chat_id) ==
    IF StateRows(chat_id) = {} THEN STATE_INITIAL
    ELSE (CHOOSE row \in StateRows(chat_id) : TRUE).state

\* INSERT INTO conversation_states (chat_id, state) VALUES (?, ?)
\* ON CONFLICT(chat_id) DO UPDATE SET state = excluded.state
UpsertState(table, chat_id, state) ==
    IF \E row \in table : row.chat_id = chat_id
    THEN { IF row.chat_id = chat_id THEN [row EXCEPT !.state = state] ELSE row :
           row \in table }
    ELSE table \cup { [chat_id |-> chat_id, state |-> state, new_aux_name |-> NULL,
                       new_aux_email |-> NULL, new_aux_phone |-> NULL] }

\* an update that writes every field into new_aux_name
StoreField_NameOnly(table, chat_id, field, value, state) ==
    { IF row.chat_id = chat_id
      THEN [row EXCEPT !.new_aux_name = value, !.state = state] ELSE row :
      row \in table }

\* UPDATE conversation_states SET <field> = ?, state = ? WHERE chat_id = ?
StoreField(table, chat_id, field, value, state) ==
    { IF row.chat_id = chat_id
      THEN [row EXCEPT ![field] = value, !.state = state] ELSE row :
      row \in table }

\* a delete that leaves the table as it is
DeleteState_Keep(table, chat_id) == table

\* DELETE FROM conversation_states WHERE chat_id = ?
DeleteState(table, chat_id) == { row \in table : row.chat_id # chat_id }

\* whether INSERT INTO auxiliary_people raises sqlite3.IntegrityError:
\* telefone is UNIQUE, and name, email and telefone are NOT NULL
InsertAuxFails(name, email, telefone) ==
    \/ NULL \in {name, email, telefone}
    \/ \E i \in DOMAIN auxiliary_people : auxiliary_people[i].telefone = telefone

\* lines 1318-1408: what the branch of user_state, the state read at lines
\* 1301-1309, writes when the chat id is the one of a user
OwnerWrites(chat_id, user, text, user_state) ==
    /\ IF user_state = STATE_INITIAL
       THEN /\ conversation_states' =
                  UpsertState(conversation_states, chat_id, STATE_COLLECT_NAME)
            /\ http' = Reply("name?", chat_id)
            /\ UNCHANGED auxiliary_people
       ELSE IF user_state = STATE_COLLECT_NAME
       THEN /\ conversation_states' =
                  StoreField(conversation_states, chat_id, "new_aux_name",
                             Join(text), STATE_COLLECT_EMAIL)
            /\ http' = Reply("email?", chat_id)
            /\ UNCHANGED auxiliary_people
       ELSE IF user_state = STATE_COLLECT_EMAIL
       THEN /\ conversation_states' =
                  StoreField(conversation_states, chat_id, "new_aux_email",
                             Join(text), STATE_COLLECT_PHONE)
            /\ http' = Reply("phone?", chat_id)
            /\ UNCHANGED auxiliary_people
       ELSE IF user_state = STATE_COLLECT_PHONE
       THEN /\ conversation_states' =
                  StoreField(conversation_states, chat_id, "new_aux_phone",
                             Join(text), STATE_COLLECT_ROLE)
            /\ http' = Reply("role?", chat_id)
            /\ UNCHANGED auxiliary_people
       ELSE IF user_state = STATE_COLLECT_ROLE
       THEN IF LowerText(text) \in {"gerente", "motorista"}
            THEN IF StateRows(chat_id) = {}
                 \* state_data is None: state_data['new_aux_name'] raises
                 THEN /\ http' = "TypeError"
                      /\ UNCHANGED << auxiliary_people, conversation_states >>
                 ELSE
                 LET state_data == CHOOSE row \in StateRows(chat_id) : TRUE IN
                 IF InsertAuxFails(state_data.new_aux_name, state_data.new_aux_email,
                                   state_data.new_aux_phone)
                 THEN /\ http' = "IntegrityError"
                      /\ UNCHANGED << auxiliary_people, conversation_states >>
                 ELSE /\ Len(auxiliary_people) < MaxAux
                      /\ auxiliary_people' =
                           Append(auxiliary_people,
                                  [id |-> NextId(auxiliary_people),
                                   user_id |-> user.id,
                                   name |-> state_data.new_aux_name,
                                   email |-> state_data.new_aux_email,
                                   telefone |-> state_data.new_aux_phone,
                                   chat_id |-> NULL,
                                   role |-> LowerText(text)])
                      /\ conversation_states' = DeleteState(conversation_states, chat_id)
                      /\ http' = Reply("added", chat_id)
            ELSE /\ http' = Reply("invalid role", chat_id)
                 /\ UNCHANGED << auxiliary_people, conversation_states >>
       ELSE /\ conversation_states' =
                  UpsertState(DeleteState(conversation_states, chat_id),
                              chat_id, STATE_COLLECT_NAME)
            /\ http' = Reply("restart", chat_id)
            /\ UNCHANGED auxiliary_people

\* lines 1317-1408: the chat id is the one of a user, the request is handled
\* without another one in between
OwnerFlow(chat_id, user, text) ==
    /\ UNCHANGED << users, machines, machine_managers, maintenance_task_templates,
                    maintenance_tasks, maintenance_task_items, gen, reportCalls,
                    checklists, cache, page, pdf, requests >>
    /\ OwnerWrites(chat_id, user, text, UserState(chat_id))

\* SELECT * FROM maintenance_task_items WHERE maintenance_task_id = ?
ItemsOf(items, maintenance_task_id) ==
    SelectSeq(items, LAMBDA it : it.maintenance_task_id = maintenance_task_id)

\* a status update that flips the status instead of setting it
MarkItem_Toggle(items, id) ==
    [ i \in DOMAIN items |->
        IF items[i].id = id
        THEN [items[i] EXCEPT !.status =
                 IF @ = "concluída" THEN "pendente" ELSE "concluída"]
        ELSE items[i] ]

\* a status update without its WHERE clause
MarkItem_AllItems(items, id) ==
    [ i \in DOMAIN items |-> [items[i] EXCEPT !.status = "concluída"] ]

\* a status update that the failing reply takes back
MarkItem_RolledBack(items, id) == items

\* UPDATE maintenance_task_items SET status = 'concluída' WHERE id = ?
MarkItem(items, id) ==
    [ i \in DOMAIN items |->
        IF items[i].id = id THEN [items[i] EXCEPT !.status = "concluída"]
        ELSE items[i] ]

\* the task number used as a 0-based index: tasks[task_number], wrapping
TaskItem_ZeroBased(tasks, task_number) == tasks[(task_number % Len(tasks)) + 1]

\* the item "Tarefa <task_number>" names: tasks[task_number - 1] of the Python list
TaskItem(tasks, task_number) == tasks[task_number]

\* lines 1451-1459: the managers of the machines the driver operates
RECURSIVE GerentesOf(_, _)
GerentesOf(mms, motorista_id) ==
    IF mms = << >> THEN << >>
    ELSE LET mm == Head(mms)
             hit == /\ \E i \in DOMAIN auxiliary_people :
                          auxiliary_people[i].id = mm.gerente_id
                    /\ \E i \in DOMAIN machines :
                          /\ machines[i].id = mm.machine_id
                          /\ machines[i].motorista_id = motorista_id
         IN (IF hit THEN << mm.gerente_id >> ELSE << >>)
            \o GerentesOf(Tail(mms), motorista_id)

\* lines 1416-1474: the chat id is the one of an auxiliary person
DriverFlow(chat_id, motorista, text) ==
    LET today_tasks == SelectSeq(maintenance_tasks,
                                 LAMBDA mt : /\ mt.motorista_id = motorista.id
                                             /\ mt.date = Today)
    IN
    /\ UNCHANGED << users, auxiliary_people, machines, machine_managers,
                    maintenance_task_templates, maintenance_tasks,
                    conversation_states, gen, checklists, cache, page, requests >>
    /\ IF today_tasks # << >>
       THEN LET maintenance_task_id == today_tasks[1].id
                tasks == ItemsOf(maintenance_task_items, maintenance_task_id)
                match == MatchTarefa(text)
            IN IF match # << >>
               THEN LET task_number == ToInt(match) IN
                    IF 1 <= task_number /\ task_number <= Len(tasks)
                    THEN LET marked == MarkItem(maintenance_task_items,
                                                TaskItem(tasks, task_number).id)
                             sent == Reply("marked", chat_id)
                             todas_concluidas ==
                                 \A i \in DOMAIN marked :
                                     marked[i].maintenance_task_id = maintenance_task_id
                                     => marked[i].status # "pendente"
                             gerente == GerentesOf(machine_managers, motorista.id)
                         IN /\ maintenance_task_items' = marked
                            /\ http' = IF sent = "returned" THEN "OK" ELSE sent
                            /\ reportCalls' =
                                 IF sent = "returned" /\ todas_concluidas
                                    /\ gerente # << >>
                                 THEN Append(reportCalls,
                                             [gerente_id |-> gerente[1],
                                              maintenance_task_id |-> maintenance_task_id])
                                 ELSE reportCalls
                            /\ pdf' =
                                 IF sent = "returned" /\ todas_concluidas
                                    /\ gerente # << >>
                                 THEN SendReport(pdf, gerente[1])
                                 ELSE pdf
                    ELSE /\ http' = Reply("invalid number", chat_id)
                         /\ UNCHANGED << maintenance_task_items, reportCalls, pdf >>
               ELSE /\ http' = Reply("not recognised", chat_id)
                    /\ UNCHANGED << maintenance_task_items, reportCalls, pdf >>
       ELSE /\ http' = Reply("no tasks today", chat_id)
            /\ UNCHANGED << maintenance_task_items, reportCalls, pdf >>

\* UPDATE <table> SET chat_id = ? WHERE id = ?
SetChatId(table, id, chat_id) ==
    [ i \in DOMAIN table |->
        IF table[i].id = id THEN [table[i] EXCEPT !.chat_id = chat_id]
        ELSE table[i] ]

\* lines 1476-1527: the chat id is unknown
UnknownFlow(chat_id, phone_number) ==
    /\ UNCHANGED << machines, machine_managers, maintenance_task_templates,
                    maintenance_tasks, maintenance_task_items,
                    conversation_states, gen, reportCalls, checklists, cache, page, pdf, requests >>
    /\ IF phone_number # << >>
       THEN LET phone_number_digits == NormalizePhone(phone_number)
                user_by_phone ==
                    SelectSeq(users, LAMBDA u : u.telefone = phone_number_digits)
                aux_by_phone ==
                    SelectSeq(auxiliary_people,
                              LAMBDA a : a.telefone = phone_number_digits)
            IN IF user_by_phone # << >>
               THEN /\ users' = SetChatId(users, user_by_phone[1].id, chat_id)
                    \* user_by_phone['nome']: the row has no such column
                    /\ http' = "IndexError"
                    /\ UNCHANGED auxiliary_people
               ELSE IF aux_by_phone # << >>
               THEN /\ auxiliary_people' =
                         SetChatId(auxiliary_people, aux_by_phone[1].id, chat_id)
                    /\ http' = Reply("welcome", chat_id)
                    /\ UNCHANGED users
               ELSE /\ http' = Reply("not found", chat_id)
                    /\ UNCHANGED << users, auxiliary_people >>
       ELSE /\ http' = ReplyWithMarkup("send your phone", chat_id)
            /\ UNCHANGED << users, auxiliary_people >>

\* the kinds of update of the model: a text message, a shared contact, a
\* message with neither (a photo), an update without 'message'
TextOf(update) == IF update.kind = "text" THEN Strip(update.text) ELSE << >>
PhoneOf(update) == IF update.kind = "contact" THEN Strip(update.phone) ELSE << >>

telegram_webhook(chat_id, update) ==
    /\ Len(reportCalls) < MaxReports
    /\ IF update.kind = "none"
       THEN /\ http' = "OK"
            /\ UNCHANGED << dbvars, gen, reportCalls, checklists, cache, page, pdf, requests >>
       ELSE LET user == SelectSeq(users, LAMBDA u : u.chat_id = chat_id)
                motorista == SelectSeq(auxiliary_people, LAMBDA a : a.chat_id = chat_id)
            IN IF user # << >>
               THEN OwnerFlow(chat_id, user[1], TextOf(update))
               ELSE IF motorista # << >>
               THEN DriverFlow(chat_id, motorista[1], TextOf(update))
               ELSE UnknownFlow(chat_id, PhoneOf(update))

\* a request of a user's chat handled by thread q, first half: lines
\* 1282-1316 read the update, the conversation row and the user.  The
\* SELECTs open no transaction, so nothing keeps another thread from
\* reading or writing the row before this one writes.
WebhookRead(q, chat_id, update) ==
    LET user == SelectSeq(users, LAMBDA u : u.chat_id = chat_id) IN
    /\ requests[q].pc = "idle"
    /\ update.kind # "none"
    /\ user # << >>
    /\ requests' = [requests EXCEPT ![q] =
                       [pc |-> "read", chat_id |-> chat_id,
                        text |-> TextOf(update),
                        user_state |-> UserState(chat_id),
                        user |-> << user[1] >>]]
    /\ UNCHANGED << dbvars, gen, reportCalls, checklists, cache, page, pdf, http >>

\* second half: the branch of the state read earlier writes, commits and
\* replies (lines 1317-1408)
WebhookWrite(q) ==
    /\ requests[q].pc = "read"
    /\ OwnerWrites(requests[q].chat_id, requests[q].user[1], requests[q].text,
                   requests[q].user_state)
    /\ requests' = [requests EXCEPT ![q] = RequestIdle]
    /\ UNCHANGED << users, machines, machine_managers, maintenance_task_templates,
                    maintenance_tasks, maintenance_task_items, gen, reportCalls,
                    checklists, cache, page, pdf >>

-----------------------------------------------------------------------------
(* Reporting: the route /send_gerente_report/<gerente_id> *)

\* the route reads the tables and writes the PDF file; the text message is
\* sent and send_telegram_media, which ConversationService does not have,
\* ends the request
send_gerente_report(gerente_id) ==
    /\ GerenteInfo(gerente_id) # << >>
    /\ pdf' = SendReport(pdf, gerente_id)
    /\ UNCHANGED << dbvars, gen, reportCalls, checklists, cache, page, http, requests >>

-----------------------------------------------------------------------------
(* The updates the webhook receives *)

TextUpdate(t) == [kind |-> "text", text |-> t, phone |-> << >>]
ContactUpdate(p) == [kind |-> "contact", text |-> << >>, phone |-> p]
PhotoUpdate == [kind |-> "photo", text |-> << >>, phone |-> << >>]
NoMessageUpdate == [kind |-> "none", text |-> << >>, phone |-> << >>]

\* the message "Tarefa <digit> concluída"
TarefaText(digit) == << "Tarefa", Blank, digit, Blank, "concluída" >>

\* what a driver may write
DriverTexts ==
    { TarefaText(d) : d \in {"0", "1", "2", "3"} }
    \cup { << Blank, "tarefa", Blank, "2", Blank, "CONCLUÍDA", "!" >>,
           << "Tarefa", Blank, "0", "1", Blank, "concluída" >>,
           << "1", Blank, "concluída" >> }

\* the contacts shared: of driver 1, of driver 3, of nobody registered
DriverContacts ==
    { << "+", "5", "5", Blank, "2", "1" >>,
      << "5", "5", "2", "3" >>,
      << "+", "5", "5", "9", "9" >> }

DriverUpdates ==
    { TextUpdate(t) : t \in DriverTexts }
    \cup { ContactUpdate(p) : p \in DriverContacts }
    \cup { PhotoUpdate, NoMessageUpdate }

\* what an owner may write: a number (the phone of user 1), a role
OwnerTexts ==
    { << "1", "1" >>,
      << Blank, "GERENTE", Blank >> }

\* the contacts shared: of user 1 (also of an auxiliary person once the owner
\* has registered one with that phone), of driver 1, of nobody registered
OwnerContacts ==
    { << "+", "5", "5", Blank, "1", "1" >>,
      << "+", "5", "5", "2", "1" >>,
      << "+", "5", "5", "9", "9" >> }

\* the first chat is the owner's: it shares the owner's contact and writes;
\* the second chat only shares contacts
OwnerInputs ==
    ({"101"} \X ({ TextUpdate(t) : t \in OwnerTexts }
                 \cup { ContactUpdate(<< "+", "5", "5", Blank, "1", "1" >>),
                        PhotoUpdate }))
    \cup ({"102"} \X { ContactUpdate(p) : p \in OwnerContacts })

-----------------------------------------------------------------------------
(* Specifications *)

\* the first chat is driver 1's: it shares that contact and writes; the
\* second chat shares the contact of driver 3 or of nobody registered
DriverInputs ==
    ({"101"} \X ({ TextUpdate(t) : t \in DriverTexts }
                 \cup { ContactUpdate(<< "+", "5", "5", Blank, "2", "1" >>),
                        PhotoUpdate, NoMessageUpdate }))
    \cup ({"102"} \X { ContactUpdate(<< "5", "5", "2", "3" >>),
                        ContactUpdate(<< "+", "5", "5", "9", "9" >>) })

Webhook == \E input \in DriverInputs : telegram_webhook(input[1], input[2])

OwnerWebhook == \E input \in OwnerInputs : telegram_webhook(input[1], input[2])

AssignTasks == assign_tasks_to_motoristas

Generator(r) == GenCheck(r) \/ GenReadCombos(r) \/ GenCombo(r) \/ GenTrigger(r)

Report == \E i \in DOMAIN auxiliary_people :
              send_gerente_report(auxiliary_people[i].id)

\* the assigner, the driver's chat and one scheduler
Next == Webhook \/ AssignTasks \/ Generator(1)

Spec == Init /\ [][Next]_vars

\* the two schedulers
NextGen == \E r \in Runs : Generator(r)

SpecGen == Init /\ [][NextGen]_vars

\* the dashboard and the generator, which share the cache
Dashboard == \E i \in DOMAIN users : dashboard(users[i].id)

NextCache == Dashboard \/ CacheExpire \/ Generator(1)

SpecCache == Init /\ [][NextCache]_vars

\* the templates of a day on which the generator has run
ReportTemplates ==
    InitTemplates \o
    << [model |-> "7200J", cidade |-> "Uberlândia", estado |-> "MG",
        date |-> Today, tasks |-> PyStr(<< "Verificar óleo", "Limpar filtro" >>)],
       [model |-> "6155M", cidade |-> "Uberlândia", estado |-> "MG",
        date |-> Today, tasks |-> PyStr(<< "Drenar d'água" >>)],
       [model |-> "7200J", cidade |-> "Uberaba", estado |-> "MG",
        date |-> Today, tasks |-> PyStr(<< "Verificar óleo" >>)] >>

\* the manager is assigned to no machine, to one or to both machines of driver 1
ReportManagers ==
    { << >>,
      << [machine_id |-> 1, gerente_id |-> 2] >>,
      << [machine_id |-> 1, gerente_id |-> 2], [machine_id |-> 2, gerente_id |-> 2] >> }

InitReport ==
    /\ InitBase
    /\ machine_managers \in ReportManagers
    /\ maintenance_task_templates = ReportTemplates

\* the two drivers bind their chats and mark their first and second tasks
ReportInputs ==
    ({"101"} \X { ContactUpdate(<< "+", "5", "5", Blank, "2", "1" >>),
                  TextUpdate(TarefaText("1")), TextUpdate(TarefaText("2")) })
    \cup ({"102"} \X { ContactUpdate(<< "5", "5", "2", "3" >>),
                        TextUpdate(TarefaText("1")) })

ReportWebhook == \E input \in ReportInputs : telegram_webhook(input[1], input[2])

\* the assigner, the drivers' chats and the report route
NextReport == ReportWebhook \/ AssignTasks \/ Report

SpecReport == InitReport /\ [][NextReport]_vars

\* templates of a day on which the LLM answered with a list that holds None:
\* for no combination, for the second or for the first of driver 1
AssignTemplates ==
    { ReportTemplates,
      InitTemplates \o
      << [model |-> "7200J", cidade |-> "Uberlândia", estado |-> "MG",
          date |-> Today, tasks |-> PyStr(<< "Verificar óleo", "Limpar filtro" >>)],
         [model |-> "6155M", cidade |-> "Uberlândia", estado |-> "MG",
          date |-> Today,
          tasks |-> PyStr(<< "Drenar d'água", NULL, "Limpar filtro" >>)],
         [model |-> "7200J", cidade |-> "Uberaba", estado |-> "MG",
          date |-> Today, tasks |-> PyStr(<< "Verificar óleo" >>)] >>,
      InitTemplates \o
      << [model |-> "7200J", cidade |-> "Uberlândia", estado |-> "MG",
          date |-> Today, tasks |-> PyStr(<< "Verificar óleo", NULL >>)],
         [model |-> "6155M", cidade |-> "Uberlândia", estado |-> "MG",
          date |-> Today, tasks |-> PyStr(<< "Drenar d'água" >>)] >> }

InitAssign ==
    /\ InitBase
    /\ machine_managers \in InitMachineManagers
    /\ maintenance_task_templates \in AssignTemplates

\* the assigner and the drivers' chats
NextAssign == ReportWebhook \/ AssignTasks

SpecAssign == InitAssign /\ [][NextAssign]_vars

\* the chats of the drivers and the assigner; either chat may turn out to
\* be the owner's, whose texts are then taken as the fields of a new person
CommitInputs ==
    ReportInputs
    \cup ({"101"} \X { ContactUpdate(<< "+", "5", "5", Blank, "1", "1" >>) })
    \cup ({"102"} \X { ContactUpdate(<< "+", "5", "5", Blank, "1", "1" >>),
                        TextUpdate(<< "1", "1" >>) })

CommitWebhook == \E input \in CommitInputs : telegram_webhook(input[1], input[2])

NextCommit == CommitWebhook \/ AssignTasks

SpecCommit == InitReport /\ [][NextCommit]_vars

\* an entry of the form of /pessoas_auxiliares; the form has no chat id field
\* filled in
FormEntry(name, email, telefone, role) ==
    [name |-> name, email |-> email, telefone |-> telefone,
     chat_id |-> NULL, role |-> role]

\* the forms the owners submit: user 1 saves the two people again as they
\* are, or the driver alone beside an entry without email, or a person with
\* the phone of user 2's driver; user 2 saves their driver again
PeopleForms ==
    { << 1, << FormEntry("João", "joao@x", "21", "motorista"),
               FormEntry("Maria", "maria@x", "22", "gerente") >> >>,
      << 1, << FormEntry("João", "joao@x", "21", "motorista"),
               FormEntry("Ana", "", "24", "gerente") >> >>,
      << 1, << FormEntry("Ana", "ana@x", "23", "motorista") >> >>,
      << 2, << FormEntry("Pedro", "pedro@x", "23", "motorista") >> >> }

PessoasAuxiliares == \E f \in PeopleForms : pessoas_auxiliares(f[1], f[2])

\* the people form, the assigner and the drivers' chats
NextPeople == PessoasAuxiliares \/ AssignTasks \/ ReportWebhook

SpecPeople == InitReport /\ [][NextPeople]_vars

\* the owner's chat
NextOwner == OwnerWebhook

InitOwner == Init /\ machine_managers = << >>

SpecOwner == InitOwner /\ [][NextOwner]_vars

\* what the owner writes while two of their messages may be in flight
RaceTexts == { << "Ana" >>, << "1", "1" >> }

\* the owner shares their contact, once, before writing anything
RaceBind ==
    /\ \A i \in DOMAIN users : users[i].chat_id # "101"
    /\ telegram_webhook("101", ContactUpdate(<< "+", "5", "5", Blank, "1", "1" >>))

RaceRead ==
    \E q \in RequestIds, t \in RaceTexts : WebhookRead(q, "101", TextUpdate(t))

RaceWrite == \E q \in RequestIds : WebhookWrite(q)

\* the owner's chat served by two threads
NextRace == RaceBind \/ RaceRead \/ RaceWrite

SpecRace == InitOwner /\ [][NextRace]_vars

\* the state column is free text: a row of the owner's chat left by another
\* version of the application, with a tag this one does not know
StaleRow ==
    [chat_id |-> "101", state |-> "collect_city", new_aux_name |-> "Ana",
     new_aux_email |-> "ana@x", new_aux_phone |-> "24"]

InitStale ==
    /\ users = InitUsers
    /\ auxiliary_people = InitAuxiliaryPeople
    /\ machines = InitMachines
    /\ machine_managers = << >>
    /\ maintenance_task_templates = InitTemplates
    /\ maintenance_tasks = InitTasks
    /\ maintenance_task_items = InitItems
    /\ conversation_states = { StaleRow }
    /\ gen = [r \in Runs |-> GenIdle]
    /\ reportCalls = << >>
    /\ checklists = << >>
    /\ cache = CacheEmpty
    /\ page = NoPage
    /\ pdf = {}
    /\ requests = [q \in RequestIds |-> RequestIdle]
    /\ http = "none"

\* the owner's chat, starting from the stale row
NextStale == OwnerWebhook

SpecStale == InitStale /\ [][NextStale]_vars

-----------------------------------------------------------------------------
(* Claims about the driver flow, checked under Spec *)

\* the auxiliary person a chat id belongs to is the first row with that chat id
C_DriverRows(chat_id) ==
    SelectSeq(auxiliary_people, LAMBDA a : a.chat_id = chat_id)

C_IsUserChat(chat_id) == \E i \in DOMAIN users : users[i].chat_id = chat_id

\* the instances of a driver for today, in rowid order
C_TodayInstances(motorista_id) ==
    SelectSeq(maintenance_tasks,
              LAMBDA mt : mt.motorista_id = motorista_id /\ mt.date = Today)

\* the indices, in maintenance_task_items, of the items of an instance, in
\* insertion order: the n-th entry is the item at 1-based position n
C_ItemIndices(maintenance_task_id) ==
    SelectSeq([ i \in DOMAIN maintenance_task_items |-> i ],
              LAMBDA i : maintenance_task_items[i].maintenance_task_id
                            = maintenance_task_id)

C_Digit(n) == CASE n = 0 -> "0" [] n = 1 -> "1" [] n = 2 -> "2" [] n = 3 -> "3"

\* the driver of chat_id has an instance today, the one the webhook reads, and
\* n is a position in it
C_ValidMark(chat_id, n) ==
    /\ ~C_IsUserChat(chat_id)
    /\ C_DriverRows(chat_id) # << >>
    /\ C_TodayInstances(C_DriverRows(chat_id)[1].id) # << >>
    /\ 1 <= n
    /\ n <= Len(C_ItemIndices(C_TodayInstances(C_DriverRows(chat_id)[1].id)[1].id))

C_MarkedIndex(chat_id, n) ==
    C_ItemIndices(C_TodayInstances(C_DriverRows(chat_id)[1].id)[1].id)[n]

\* C1: when a driver who has an instance for today with K items sends
\* "Tarefa N concluída" with 1 <= N <= K, the item at position N of that
\* instance is 'concluída' afterwards and every other item row, of this and
\* of every other instance, is as it was.
C1_MarksExactlyItemN ==
    [][ \A chat_id \in Chats, n \in 1..3 :
          ( /\ C_ValidMark(chat_id, n)
            /\ telegram_webhook(chat_id, TextUpdate(TarefaText(C_Digit(n)))) )
          => /\ DOMAIN maintenance_task_items' = DOMAIN maintenance_task_items
             /\ \A i \in DOMAIN maintenance_task_items :
                  IF i = C_MarkedIndex(chat_id, n)
                  THEN maintenance_task_items'[i] =
                         [maintenance_task_items[i] EXCEPT !.status = "concluída"]
                  ELSE maintenance_task_items'[i] = maintenance_task_items[i]
             /\ maintenance_tasks' = maintenance_tasks ]_vars

\* a driver's instance of today with its second item completed and its first
\* item pending, next to an older instance that is untouched
C1_Witness ==
    \E chat_id \in Chats :
        /\ C_ValidMark(chat_id, 2)
        /\ maintenance_task_items[C_MarkedIndex(chat_id, 2)].status = "concluída"
        /\ maintenance_task_items[C_MarkedIndex(chat_id, 1)].status = "pendente"
        /\ maintenance_task_items[1].status = "pendente"
        /\ http = "ValueError"

\* the managers assigned to a machine the driver operates
C_ManagersOf(motorista_id) ==
    { machine_managers[k].gerente_id : k \in
        { k \in DOMAIN machine_managers :
            /\ \E i \in DOMAIN machines :
                  /\ machines[i].id = machine_managers[k].machine_id
                  /\ machines[i].motorista_id = motorista_id
            /\ \E i \in DOMAIN auxiliary_people :
                  auxiliary_people[i].id = machine_managers[k].gerente_id } }

\* C2: a message that marks an item while another item of the instance is
\* still pending triggers no report; the message that marks the last pending
\* item triggers exactly one send_gerente_report call, for a manager of the
\* driver's machines, and none when no manager is resolvable.
C2_CompletionTrigger ==
    [][ \A chat_id \in Chats, n \in 1..3 :
          ( /\ C_ValidMark(chat_id, n)
            /\ telegram_webhook(chat_id, TextUpdate(TarefaText(C_Digit(n)))) )
          => LET motorista_id == C_DriverRows(chat_id)[1].id
                 idx == C_ItemIndices(C_TodayInstances(motorista_id)[1].id)
                 othersPending ==
                     \E j \in DOMAIN idx :
                         j # n /\ maintenance_task_items[idx[j]].status = "pendente"
                 marksLast ==
                     /\ maintenance_task_items[idx[n]].status = "pendente"
                     /\ ~othersPending
             IN IF othersPending \/ ~marksLast \/ C_ManagersOf(motorista_id) = {}
                THEN othersPending \/ C_ManagersOf(motorista_id) = {}
                       => reportCalls' = reportCalls
                ELSE /\ Len(reportCalls') = Len(reportCalls) + 1
                     /\ SubSeq(reportCalls', 1, Len(reportCalls)) = reportCalls
                     /\ reportCalls'[Len(reportCalls')].gerente_id
                          \in C_ManagersOf(motorista_id) ]_vars

\* the instances of today all of whose items are completed
C_DoneInstances ==
    { k \in DOMAIN maintenance_tasks :
        /\ maintenance_tasks[k].date = Today
        /\ C_ItemIndices(maintenance_tasks[k].id) # << >>
        /\ \A i \in DOMAIN maintenance_task_items :
              maintenance_task_items[i].maintenance_task_id = maintenance_tasks[k].id
              => maintenance_task_items[i].status = "concluída" }

C_ReportsFor(maintenance_task_id) ==
    { k \in DOMAIN reportCalls :
        reportCalls[k].maintenance_task_id = maintenance_task_id }

\* C3: over the life of an instance, whatever the driver sends, the instance
\* becoming done has triggered exactly one report generation (for a driver
\* with a resolvable manager), never none and never two.
C3_ExactlyOneReport ==
    \A k \in C_DoneInstances :
        C_ManagersOf(maintenance_tasks[k].motorista_id) # {}
        => Cardinality(C_ReportsFor(maintenance_tasks[k].id)) = 1

-----------------------------------------------------------------------------
(* Claims about the generator, checked under SpecGen *)

\* C5: a generator run that starts on a date for which a template row exists
\* returns at its guard: it inserts no template row and makes no LLM call.
C5_GeneratorIdempotent ==
    \A r \in Runs :
        gen[r].existed
        => /\ gen[r].pc = "returned"
           /\ gen[r].inserted = 0
           /\ gen[r].llm = 0

\* a run has returned at its guard because an earlier run left a template
C5_Witness ==
    \E r \in Runs :
        /\ gen[r].existed
        /\ gen[r].pc = "returned"
        /\ \E i \in DOMAIN maintenance_task_templates :
              maintenance_task_templates[i].date = Today

C_TemplateKey(t) == << t.model, t.cidade, t.estado, t.date >>

\* C6: in every reachable state, also with generator runs that overlap in
\* time, the table holds at most one template per (model, city, state, date).
C6_OneTemplatePerKey ==
    \A i, j \in DOMAIN maintenance_task_templates :
        i # j => C_TemplateKey(maintenance_task_templates[i])
                   # C_TemplateKey(maintenance_task_templates[j])

-----------------------------------------------------------------------------
(* Claims about the owner flow and the phone resolution, under SpecOwner *)

\* the text of a message as the webhook reads it (stripped)
C_Text(t) ==
    CASE t = << "1", "1" >> -> "11"
      [] t = << Blank, "GERENTE", Blank >> -> "GERENTE"

\* the role a text names, ignoring case, or NULL
C_Role(t) ==
    CASE t = << Blank, "GERENTE", Blank >> -> "gerente"
      [] OTHER -> NULL

\* the number of a shared contact: its digits without the first two
C_Number(p) ==
    CASE p = << "+", "5", "5", Blank, "1", "1" >> -> "11"
      [] p = << "+", "5", "5", "2", "1" >> -> "21"
      [] p = << "+", "5", "5", "9", "9" >> -> "99"

C_StateRows(chat_id) == { row \in conversation_states : row.chat_id = chat_id }

C_UserOf(chat_id) == SelectSeq(users, LAMBDA u : u.chat_id = chat_id)[1]

\* C7: for a chat id bound to a user, a message in state initial only creates
\* the row in collect_name; a text message in collect_name, collect_email or
\* collect_phone is stored in the field of that state and moves the row to
\* the next state, leaving the other fields and rows as they were.
C7_OwnerFlowAdvances ==
    [][ \A input \in OwnerInputs :
          ( /\ C_IsUserChat(input[1])
            /\ telegram_webhook(input[1], input[2]) )
          => LET chat_id == input[1]
                 update == input[2]
                 rows == C_StateRows(chat_id)
                 others == conversation_states \ rows
             IN /\ rows = {}
                   => /\ conversation_states' = conversation_states \cup
                           { [chat_id |-> chat_id, state |-> "collect_name",
                              new_aux_name |-> NULL, new_aux_email |-> NULL,
                              new_aux_phone |-> NULL] }
                      /\ auxiliary_people' = auxiliary_people
                /\ \A row \in rows :
                     update.kind = "text" /\ row.state # "collect_role"
                     => /\ conversation_states' = others \cup
                             { CASE row.state = "collect_name" ->
                                      [row EXCEPT !.new_aux_name = C_Text(update.text),
                                                  !.state = "collect_email"]
                                 [] row.state = "collect_email" ->
                                      [row EXCEPT !.new_aux_email = C_Text(update.text),
                                                  !.state = "collect_phone"]
                                 [] row.state = "collect_phone" ->
                                      [row EXCEPT !.new_aux_phone = C_Text(update.text),
                                                  !.state = "collect_role"] }
                        /\ auxiliary_people' = auxiliary_people ]_vars

\* the owner's row has reached collect_role with three different fields kept
C7_Witness ==
    \E row \in conversation_states :
        /\ row.state = "collect_role"
        /\ row.new_aux_name = "GERENTE"
        /\ row.new_aux_email = "11"
        /\ row.new_aux_phone = "GERENTE"

\* C8: in collect_role a message whose stripped text is "gerente" or
\* "motorista", ignoring case, inserts one auxiliary person of the user with
\* the collected name, email and phone and the lower-cased role, and deletes
\* the state row; any other input inserts nobody and leaves the row alone.
C8_RoleInsertsPerson ==
    [][ \A input \in OwnerInputs :
          ( /\ C_IsUserChat(input[1])
            /\ \E row \in C_StateRows(input[1]) : row.state = "collect_role"
            /\ telegram_webhook(input[1], input[2]) )
          => LET chat_id == input[1]
                 update == input[2]
                 row == CHOOSE row \in C_StateRows(chat_id) : TRUE
             IN IF update.kind = "text" /\ C_Role(update.text) # NULL
                THEN /\ Len(auxiliary_people') = Len(auxiliary_people) + 1
                     /\ SubSeq(auxiliary_people', 1, Len(auxiliary_people))
                          = auxiliary_people
                     /\ LET new == auxiliary_people'[Len(auxiliary_people')]
                        IN /\ new.user_id = C_UserOf(chat_id).id
                           /\ new.name = row.new_aux_name
                           /\ new.email = row.new_aux_email
                           /\ new.telefone = row.new_aux_phone
                           /\ new.role = C_Role(update.text)
                     /\ conversation_states' = conversation_states \ {row}
                ELSE /\ auxiliary_people' = auxiliary_people
                     /\ conversation_states' = conversation_states ]_vars

C_Unbound(chat_id) ==
    /\ ~C_IsUserChat(chat_id)
    /\ C_DriverRows(chat_id) = << >>

C_Bound(table, i, chat_id) ==
    [ k \in DOMAIN table |->
        IF k = i THEN [table[k] EXCEPT !.chat_id = chat_id] ELSE table[k] ]

\* C9 as stated: for a chat id bound to nobody, a shared contact whose number
\* is the stored phone of a user or of an auxiliary person sets that record's
\* chat_id to the sender's; a contact that matches no record, and an update
\* without a contact, change no row of any table.
C9_PhoneResolution ==
    [][ \A input \in OwnerInputs :
          ( /\ C_Unbound(input[1])
            /\ telegram_webhook(input[1], input[2]) )
          => LET chat_id == input[1]
                 update == input[2]
             IN IF update.kind = "contact"
                THEN /\ \A i \in DOMAIN users :
                          users[i].telefone = C_Number(update.phone)
                          => users'[i].chat_id = chat_id
                     /\ \A i \in DOMAIN auxiliary_people :
                          auxiliary_people[i].telefone = C_Number(update.phone)
                          => auxiliary_people'[i].chat_id = chat_id
                     /\ ( /\ \A i \in DOMAIN users :
                                users[i].telefone # C_Number(update.phone)
                          /\ \A i \in DOMAIN auxiliary_people :
                                auxiliary_people[i].telefone # C_Number(update.phone) )
                        => UNCHANGED dbvars
                ELSE UNCHANGED dbvars ]_vars

\* C9 as amended: the users are looked up first.  A contact whose number is
\* the phone of a user sets that user's chat_id and nothing else; a contact
\* whose number is the phone of no user and of an auxiliary person sets that
\* person's chat_id and nothing else; any other update changes no row.
C9_PhoneResolutionUsersFirst ==
    [][ \A input \in OwnerInputs :
          ( /\ C_Unbound(input[1])
            /\ telegram_webhook(input[1], input[2]) )
          => LET chat_id == input[1]
                 update == input[2]
                 us == { i \in DOMAIN users :
                           /\ update.kind = "contact"
                           /\ users[i].telefone = C_Number(update.phone) }
                 as == { i \in DOMAIN auxiliary_people :
                           /\ update.kind = "contact"
                           /\ us = {}
                           /\ auxiliary_people[i].telefone = C_Number(update.phone) }
             IN /\ \A i \in us : users' = C_Bound(users, i, chat_id)
                /\ us = {} => users' = users
                /\ \A i \in as : auxiliary_people' = C_Bound(auxiliary_people, i, chat_id)
                /\ as = {} => auxiliary_people' = auxiliary_people
                /\ UNCHANGED << machines, machine_managers, maintenance_task_templates,
                                maintenance_tasks, maintenance_task_items,
                                conversation_states >> ]_vars

\* the second chat has shared the owner's contact after the owner registered
\* an auxiliary person with the owner's own phone: the user is bound, the
\* person is not
C9_Witness ==
    /\ users[1].chat_id = "102"
    /\ \E i \in DOMAIN auxiliary_people :
          /\ auxiliary_people[i].telefone = users[1].telefone
          /\ auxiliary_people[i].chat_id = NULL

\* C10: once the webhook has bound a chat id to a user or to an auxiliary
\* person, no later update changes that record's chat_id.
C10_BindingIsOneTime ==
    [][ /\ \A i \in DOMAIN users :
             users[i].chat_id # NULL => users'[i].chat_id = users[i].chat_id
        /\ \A i \in DOMAIN auxiliary_people :
             auxiliary_people[i].chat_id # NULL
             => auxiliary_people'[i].chat_id = auxiliary_people[i].chat_id ]_vars

-----------------------------------------------------------------------------
(* Claims about rejections, numbering and the assigner, checked under Spec *)

\* the task number a driver's text names, or -1 when the text does not match
C_TextNumber(t) ==
    CASE t = TarefaText("0") -> 0
      [] t = TarefaText("1") -> 1
      [] t = TarefaText("2") -> 2
      [] t = TarefaText("3") -> 3
      [] t = << Blank, "tarefa", Blank, "2", Blank, "CONCLUÍDA", "!" >> -> 2
      [] t = << "Tarefa", Blank, "0", "1", Blank, "concluída" >> -> 1
      [] OTHER -> -1

\* an update the driver flow rejects: no instance for today, no text, a text
\* that does not match, or a number that is not a position of the instance
C_Rejected(chat_id, update) ==
    /\ ~C_IsUserChat(chat_id)
    /\ C_DriverRows(chat_id) # << >>
    /\ update.kind # "none"
    /\ \/ update.kind # "text"
       \/ ~C_ValidMark(chat_id, C_TextNumber(update.text))

\* C11: a rejected driver message (N = 0, N above the item count, a text that
\* does not match, any message without an instance for today) produces only a
\* reply: the reply is sent and the request acknowledged, no item changes and
\* no report is triggered.
C11_RejectionsOnlyReply ==
    [][ \A chat_id \in Chats, update \in DriverUpdates :
          ( /\ C_Rejected(chat_id, update)
            /\ telegram_webhook(chat_id, update) )
          => /\ maintenance_task_items' = maintenance_task_items
             /\ reportCalls' = reportCalls
             /\ http' = "OK" ]_vars

\* the item the webhook marks for "Tarefa n concluída" from chat_id
C_MarkedItem(chat_id, n) == maintenance_task_items[C_MarkedIndex(chat_id, n)]

\* C12: the number a checklist shows for a task is the 1-based insertion
\* position of the item in the instance the checklist was built for, and
\* "Tarefa N concluída" marks the item whose text is on line N of the
\* checklist the driver was sent.
C12_ChecklistNumbering ==
    [][ /\ \A k \in DOMAIN checklists :
             LET c == checklists[k]
                 pos == C_ItemIndices(c.for_instance)
             IN /\ Len(c.lines) = Len(pos)
                /\ \A n \in DOMAIN c.lines :
                     /\ c.lines[n].idx = n
                     /\ c.lines[n].task = maintenance_task_items[pos[n]].task
        /\ \A chat_id \in Chats, n \in 1..3 :
             ( /\ C_ValidMark(chat_id, n)
               /\ telegram_webhook(chat_id, TextUpdate(TarefaText(C_Digit(n)))) )
             => \A k \in DOMAIN checklists :
                  ( /\ checklists[k].chat_id = chat_id
                    /\ n \in DOMAIN checklists[k].lines )
                  => checklists[k].lines[n].task = C_MarkedItem(chat_id, n).task
      ]_vars

\* the task strings a stored template text stands for
C_TasksOf(stored) ==
    CASE stored = << "[", "'", "Verificar óleo", "'", "]" >>
           -> << "Verificar óleo" >>
      [] stored = << "[", "'", "Verificar óleo", "'", ",", Blank,
                     "'", "Limpar filtro", "'", "]" >>
           -> << "Verificar óleo", "Limpar filtro" >>
      [] stored = << "[", "\"", "Drenar d'água", "\"", "]" >>
           -> << "Drenar d'água" >>

\* the items of an instance in a table of items, in insertion order
C_ItemsIn(items, maintenance_task_id) ==
    SelectSeq(items, LAMBDA it : it.maintenance_task_id = maintenance_task_id)

C_Drivers == { i \in DOMAIN auxiliary_people : auxiliary_people[i].role = "motorista" }

\* the templates of today for a model at the place of the driver's owner
C_TemplatesFor(d, model) ==
    { k \in DOMAIN maintenance_task_templates :
        LET t == maintenance_task_templates[k] IN
        /\ t.model = model
        /\ t.date = Today
        /\ \E u \in DOMAIN users :
              /\ users[u].id = auxiliary_people[d].user_id
              /\ users[u].cidade = t.cidade
              /\ users[u].estado = t.estado }

\* the distinct models the driver operates for which a template exists today
C_ModelsWithTemplate(d) ==
    { machines[m].model : m \in { m \in DOMAIN machines :
          /\ machines[m].motorista_id = auxiliary_people[d].id
          /\ C_TemplatesFor(d, machines[m].model) # {} } }

C14_OneInstancePerDriverDate ==
    \A i, j \in DOMAIN maintenance_tasks :
        ( /\ maintenance_tasks[i].motorista_id = maintenance_tasks[j].motorista_id
          /\ maintenance_tasks[i].date = maintenance_tasks[j].date )
        => i = j

-----------------------------------------------------------------------------
(* Claims about the generator's failures, checked under SpecGen *)

\* the outcomes that are failures: an LLM call raised, a request to the
\* weather services was needed while they were down, or the response is not
\* the text of a list
C_Fails(o) ==
    \/ o.kind \in {"raise", "invoke raise"}
    \/ o.net = "down" /\ \E key \in DOMAIN cache : cache[key] = << >>
    \/ o.text = << "'", "Verificar óleo", "'" >>
    \/ o.text = << "Aqui", Blank, "estão", Blank, "as", Blank, "tarefas" >>

\* C15: when the processing of a combination fails, no template is stored for
\* it, the run does not attempt it again and goes on to the next combination
\* (or ends normally after the last); a combination that succeeds gets its
\* template stored.
C15_FailureIsolation ==
    [][ \A r \in Runs, o \in LLMOutcomes :
          GenComboOutcome(r, o)
          => LET combo == gen[r].combos[gen[r].k] IN
             /\ gen'[r].k = gen[r].k + 1
             /\ gen'[r].llm = gen[r].llm + 1
             /\ gen'[r].combos = gen[r].combos
             /\ gen'[r].pc = IF gen[r].k < Len(gen[r].combos) THEN "loop" ELSE "done"
             /\ IF C_Fails(o)
                THEN maintenance_task_templates' = maintenance_task_templates
                ELSE /\ Len(maintenance_task_templates')
                          = Len(maintenance_task_templates) + 1
                     /\ SubSeq(maintenance_task_templates', 1,
                               Len(maintenance_task_templates))
                          = maintenance_task_templates
                     /\ C_TemplateKey(maintenance_task_templates'[
                                          Len(maintenance_task_templates')])
                          = << combo.model, combo.cidade, combo.estado, Today >> ]_vars

\* a run has ended after three attempts: its first combination failed and
\* has no template, its last one has
C15_Witness ==
    \E r \in Runs :
        /\ gen[r].pc = "done"
        /\ Len(gen[r].combos) = 3
        /\ gen[r].llm = 3
        /\ \A i \in DOMAIN maintenance_task_templates :
              C_TemplateKey(maintenance_task_templates[i])
                # << gen[r].combos[1].model, gen[r].combos[1].cidade,
                     gen[r].combos[1].estado, Today >>
        /\ \E i \in DOMAIN maintenance_task_templates :
              C_TemplateKey(maintenance_task_templates[i])
                = << gen[r].combos[3].model, gen[r].combos[3].cidade,
                     gen[r].combos[3].estado, Today >>

-----------------------------------------------------------------------------
(* Claims about the weather cache, checked under SpecCache *)

C_CoordsOf(city) ==
    CASE city = "Uberlândia" -> [lat |-> "-18.91", lon |-> "-48.27"]
      [] city = "Uberaba" -> [lat |-> "-19.75", lon |-> "-47.93"]

C_WeatherAt(coords) ==
    CASE coords.lat = "-18.91" -> [temperature |-> "28", description |-> "céu limpo"]
      [] coords.lat = "-19.75" -> [temperature |-> "31", description |-> "nublado"]

\* C19: the caches are keyed by the input: the coordinates get_lat_lon returns
\* for a city are those of that city, and the weather get_weather returns for
\* a pair of coordinates is the weather at those coordinates, never a value
\* cached for another input.
C19_CacheKeyedByInput ==
    /\ page.lat_lon # << >> => page.lat_lon[1] = C_CoordsOf(page.cidade)
    /\ page.weather # << >> => page.weather[1] = C_WeatherAt(page.lat_lon[1])

-----------------------------------------------------------------------------
(* Claims about the manager's report, checked under SpecReport *)

\* the drivers operating a machine the manager is assigned to
C_ManagedDrivers(g) ==
    { machines[j].motorista_id : j \in
        { j \in DOMAIN machines :
            \E i \in DOMAIN machine_managers :
               /\ machine_managers[i].gerente_id = g
               /\ machine_managers[i].machine_id = machines[j].id } }

\* the items of a driver's instances of today with the given status
C_ItemsToday(d, status) ==
    { k \in DOMAIN maintenance_task_items :
        /\ maintenance_task_items[k].status = status
        /\ \E i \in DOMAIN maintenance_tasks :
              /\ maintenance_tasks[i].id = maintenance_task_items[k].maintenance_task_id
              /\ maintenance_tasks[i].motorista_id = d
              /\ maintenance_tasks[i].date = Today }

C_NameOf(d) ==
    auxiliary_people[CHOOSE i \in DOMAIN auxiliary_people :
                        auxiliary_people[i].id = d].name

\* a section lists exactly the completed items of today of driver d:
\* as many lines as items, every such item on a line with its text
C_SectionOf(section, d) ==
    /\ section.motorista_name = C_NameOf(d)
    /\ Len(section.tasks) = Cardinality(C_ItemsToday(d, "concluída"))
    /\ \A k \in DOMAIN section.tasks : section.tasks[k].status = "concluída"
    /\ \A k \in C_ItemsToday(d, "concluída") :
          Cardinality({ n \in DOMAIN section.tasks :
                          section.tasks[n].task = maintenance_task_items[k].task })
            = Cardinality({ n \in C_ItemsToday(d, "concluída") :
                              maintenance_task_items[n].task
                                = maintenance_task_items[k].task })

C_ReportRight(report, g) ==
    LET withItems == { d \in C_ManagedDrivers(g) :
                         C_ItemsToday(d, "concluída") # {} } IN
    /\ \A n \in DOMAIN report.sections :
          \E d \in withItems : C_SectionOf(report.sections[n], d)
    /\ \A d \in withItems :
          \E n \in DOMAIN report.sections : C_SectionOf(report.sections[n], d)
    /\ (report.message # "") = (withItems = {})
    /\ C_ManagedDrivers(g) = {} => report.message = NoSubordinates
    /\ C_ManagedDrivers(g) # {} /\ withItems = {}
          => report.message = NoCompletedTasks

-----------------------------------------------------------------------------
(* Claims about errors in the webhook *)

\* C16: the /webhook endpoint answers every update with the acknowledgment
\* 'OK': no branch of telegram_webhook, a failing send_message included, lets
\* an error reach the HTTP caller. (Spec)
C16_WebhookAlwaysOK ==
    [][ \A input \in DriverInputs :
          telegram_webhook(input[1], input[2]) => http' = "OK" ]_vars

\* the owner's chat is about to complete collect_role with a phone number
\* that an auxiliary person already has
C_DuplicatePhone(chat_id, update) ==
    /\ C_IsUserChat(chat_id)
    /\ update.kind = "text"
    /\ update.text = << Blank, "GERENTE", Blank >>
    /\ \E row \in C_StateRows(chat_id) :
          /\ row.state = STATE_COLLECT_ROLE
          /\ \E i \in DOMAIN auxiliary_people :
                auxiliary_people[i].telefone = row.new_aux_phone

\* C17: when the owner completes collect_role with a phone number already
\* stored for another auxiliary person, the insert failure is handled inside
\* the webhook (the request ends with the acknowledgment, not with an
\* uncaught error) and no auxiliary person is added. (SpecOwner)
C17_DuplicateKeyCaught ==
    [][ \A input \in OwnerInputs :
          ( /\ C_DuplicatePhone(input[1], input[2])
            /\ telegram_webhook(input[1], input[2]) )
          => /\ auxiliary_people' = auxiliary_people
             /\ http' = "OK" ]_vars

-----------------------------------------------------------------------------
(* Claims about overlapping generator runs, checked under SpecGen *)

C_TodayTemplates ==
    { i \in DOMAIN maintenance_task_templates :
        maintenance_task_templates[i].date = Today }

\* C20: the "already generated today" guard is a read followed by a separate
\* write with no lock: the read changes no table and its answer depends on
\* the templates alone, not on what another run is doing, and the later
\* insert appends its row whether or not a row with that key is there; so
\* two overlapping runs can both read 'no template for today' and both
\* insert a template for the same (model, city, state, date).
C20_GuardIsPlainRead ==
    [][ \A r \in Runs :
          /\ GenCheck(r)
               => /\ UNCHANGED dbvars
                  /\ gen'[r].pc = IF C_TodayTemplates # {} THEN "returned"
                                  ELSE "checked"
                  /\ \A q \in Runs \ {r} : gen'[q] = gen[q]
          /\ ( /\ gen[r].pc = "loop"
               /\ gen'[r].inserted = gen[r].inserted + 1 )
               => /\ Len(maintenance_task_templates')
                       = Len(maintenance_task_templates) + 1
                  /\ C_TemplateKey(maintenance_task_templates'
                                     [Len(maintenance_task_templates')])
                       = << gen[r].combos[gen[r].k].model,
                            gen[r].combos[gen[r].k].cidade,
                            gen[r].combos[gen[r].k].estado, Today >>
                  /\ SubSeq(maintenance_task_templates', 1,
                            Len(maintenance_task_templates))
                       = maintenance_task_templates ]_vars

\* both runs read 'no template for today', both inserted, and two templates
\* of today have the same (model, city, state)
C20_Witness ==
    /\ \A r \in Runs : /\ ~gen[r].existed
                       /\ gen[r].inserted >= 1
                       /\ gen[r].pc \in {"loop", "done"}
    /\ \E i, j \in C_TodayTemplates :
          /\ i # j
          /\ C_TemplateKey(maintenance_task_templates[i])
               = C_TemplateKey(maintenance_task_templates[j])

-----------------------------------------------------------------------------
(* Claims about a stale conversation row, checked under SpecStale *)

C_KnownStates ==
    {STATE_INITIAL, STATE_COLLECT_NAME, STATE_COLLECT_EMAIL,
     STATE_COLLECT_PHONE, STATE_COLLECT_ROLE}

C_FreshRow(chat_id) ==
    [chat_id |-> chat_id, state |-> STATE_COLLECT_NAME, new_aux_name |-> NULL,
     new_aux_email |-> NULL, new_aux_phone |-> NULL]

\* C21: for a chat id bound to a user, a conversation state row whose state
\* tag is none of initial, collect_name, collect_email, collect_phone,
\* collect_role is replaced on the next message by a row in state
\* collect_name with all scratch fields empty; no auxiliary person is
\* inserted.
C21_UnknownStateResets ==
    [][ \A input \in OwnerInputs :
          ( /\ C_IsUserChat(input[1])
            /\ input[2].kind # "none"
            /\ \E row \in C_StateRows(input[1]) : row.state \notin C_KnownStates
            /\ telegram_webhook(input[1], input[2]) )
          => /\ { row \in conversation_states' : row.chat_id = input[1] }
                  = { C_FreshRow(input[1]) }
             /\ { row \in conversation_states' : row.chat_id # input[1] }
                  = { row \in conversation_states : row.chat_id # input[1] }
             /\ auxiliary_people' = auxiliary_people ]_vars

\* the owner's chat is bound, nobody was added, and the stale row has given
\* way to a fresh row in collect_name
C21_Witness ==
    /\ C_IsUserChat("101")
    /\ StaleRow \notin conversation_states
    /\ conversation_states = { C_FreshRow("101") }
    /\ Len(auxiliary_people) = Len(InitAuxiliaryPeople)

-----------------------------------------------------------------------------
(* Claims about a failing item insert, checked under SpecAssign *)

\* the templates of today whose list holds None, an element the NOT NULL
\* column task rejects
C_BadTemplates ==
    { i \in DOMAIN maintenance_task_templates :
        /\ maintenance_task_templates[i].date = Today
        /\ "None" \in SeqRange(maintenance_task_templates[i].tasks) }

\* the number of task strings a template's text shows before its None
C_TasksBeforeNone(i) ==
    LET text == maintenance_task_templates[i].tasks
        none == CHOOSE k \in DOMAIN text : text[k] = "None"
    IN Cardinality({ k \in 1..(none - 1) :
                       text[k] \in {"Verificar óleo", "Limpar filtro",
                                    "Drenar d'água"} })

\* the instances a step adds, and the items of an instance after the step
C_NewInstances == (DOMAIN maintenance_tasks') \ (DOMAIN maintenance_tasks)

C_ItemsAfter(i) ==
    { k \in DOMAIN maintenance_task_items' :
        maintenance_task_items'[k].maintenance_task_id = maintenance_tasks'[i].id }

\* C22 as stated: a failure while inserting the items of an instance leaves
\* the instance row and the items inserted so far persisted, so an instance
\* exists with fewer items than its template has tasks.
C22_PartialInstancePersists ==
    [][ ( /\ assign_tasks_to_motoristas
          /\ C_BadTemplates # {} )
        => \E b \in C_BadTemplates, i \in C_NewInstances :
              /\ maintenance_tasks'[i].motorista_id = 1
              /\ Cardinality(C_ItemsAfter(i)) = C_TasksBeforeNone(b) ]_vars

\* C22, amended: creating an instance and inserting its items is one
\* transaction.  When an item insert fails, the instance row and the items
\* inserted before it are rolled back; the instances committed for the
\* pairs visited earlier stay, each with all the items of its template; the
\* exception ends the run, so the pairs after the failing one get nothing.
C22_InstanceAtomic ==
    [][ ( /\ assign_tasks_to_motoristas
          /\ C_BadTemplates # {} )
        => /\ http' = "IntegrityError"
           /\ SubSeq(maintenance_tasks', 1, Len(maintenance_tasks)) = maintenance_tasks
           /\ SubSeq(maintenance_task_items', 1, Len(maintenance_task_items))
                = maintenance_task_items
           /\ \A k \in (DOMAIN maintenance_task_items')
                          \ (DOMAIN maintenance_task_items) :
                 /\ maintenance_task_items'[k].task # NULL
                 /\ \E i \in C_NewInstances :
                       maintenance_tasks'[i].id
                         = maintenance_task_items'[k].maintenance_task_id
           /\ \A i \in C_NewInstances :
                 /\ maintenance_tasks'[i].motorista_id = 1
                 /\ Cardinality(C_ItemsAfter(i)) = 2
                 /\ \E a, b \in C_ItemsAfter(i) :
                       /\ a < b
                       /\ maintenance_task_items'[a].task = "Verificar óleo"
                       /\ maintenance_task_items'[b].task = "Limpar filtro"
           /\ Cardinality(C_NewInstances)
                = IF \E b \in C_BadTemplates :
                        maintenance_task_templates[b].model = "7200J"
                  THEN 0 ELSE 1
           /\ checklists' # checklists => C_NewInstances # {} ]_vars

\* a run has failed at the second model of driver 1: the instance of the
\* first model is there with its two items, and nothing else was added
C22_Witness ==
    /\ http = "IntegrityError"
    /\ C_BadTemplates # {}
    /\ Len(maintenance_tasks) = Len(InitTasks) + 1
    /\ maintenance_tasks[Len(maintenance_tasks)].motorista_id = 1
    /\ maintenance_tasks[Len(maintenance_tasks)].date = Today
    /\ Len(maintenance_task_items) = Len(InitItems) + 2

-----------------------------------------------------------------------------
(* Claims about the LLM client, checked under SpecGen *)

\* C23: get_llm initializes the LLM client lazily: the first call constructs
\* a ChatPDF client and every later call in the same process returns that
\* client without constructing a new one, so a generator run over n
\* combinations constructs at most one client.
C23_OneClientPerRun ==
    [][ \A r \in Runs :
          ( /\ gen[r].pc = "loop"
            /\ gen'[r].k = gen[r].k + 1 )
          => /\ gen'[r].clients <= 1
             /\ gen[r].client # NULL
                  => /\ gen'[r].clients = gen[r].clients
                     /\ gen'[r].client = gen[r].client ]_vars

-----------------------------------------------------------------------------
(* Claims about the guard of later runs, checked under SpecGen *)

\* the combinations in use that have no template of today
C_MissingToday ==
    { c \in { << machines[ji[1]].model, users[ji[2]].cidade, users[ji[2]].estado >> :
                ji \in { ji \in (DOMAIN machines) \X (DOMAIN users) :
                           users[ji[2]].id = machines[ji[1]].user_id } } :
        \A t \in C_TodayTemplates :
           C_TemplateKey(maintenance_task_templates[t])
             # << c[1], c[2], c[3], Today >> }

-----------------------------------------------------------------------------
(* Claims about completing items through the chat, checked under SpecReport *)

\* the pending items of today's instances of the person bound to chat_id
C_PendingToday(chat_id) ==
    { k \in DOMAIN maintenance_task_items :
        /\ maintenance_task_items[k].status = "pendente"
        /\ \E i \in DOMAIN maintenance_tasks, a \in DOMAIN auxiliary_people :
              /\ auxiliary_people[a].chat_id = chat_id
              /\ maintenance_tasks[i].motorista_id = auxiliary_people[a].id
              /\ maintenance_tasks[i].date = Today
              /\ maintenance_tasks[i].id
                   = maintenance_task_items[k].maintenance_task_id }

\* C25: every item assigned to a driver for today can be completed through
\* the chat: for each pending item of each of the driver's instances of
\* today there is a message "Tarefa N concluída" that marks it, also when
\* the driver has several instances for today.
C25_EveryItemCompletable ==
    \A chat_id \in Chats :
       (~C_IsUserChat(chat_id) /\ C_DriverRows(chat_id) # << >>)
       => \A k \in C_PendingToday(chat_id) :
             \E n \in {"1", "2", "3", "4", "5", "9"} :
                ENABLED ( /\ telegram_webhook(chat_id, TextUpdate(TarefaText(n)))
                          /\ maintenance_task_items'[k].status = "concluída" )

-----------------------------------------------------------------------------
(* Claims about finishing the owner flow, checked under SpecOwner *)

\* the rows of a user's chat that wait for the role, with room in the table
\* of the model or a phone number that an auxiliary person already has
C_WaitingForRole(chat_id) ==
    { row \in C_StateRows(chat_id) :
        /\ C_IsUserChat(chat_id)
        /\ row.state = STATE_COLLECT_ROLE
        /\ \/ Len(auxiliary_people) < MaxAux
           \/ \E i \in DOMAIN auxiliary_people :
                 auxiliary_people[i].telefone = row.new_aux_phone }

\* C26: the owner flow can always finish, also when the phone number
\* collected is already stored for an auxiliary person.  In collect_role
\* no message changes the collected fields and only "gerente" or
\* "motorista" can delete the row, so from every such state one of the two
\* messages must delete it.
C26_OwnerFlowCanFinish ==
    \A chat_id \in Chats :
       C_WaitingForRole(chat_id) # {}
       => \E role \in {"gerente", "motorista"} :
             ENABLED ( /\ telegram_webhook(chat_id, TextUpdate(<< role >>))
                       /\ \A row \in conversation_states' :
                             row.chat_id # chat_id )

-----------------------------------------------------------------------------
(* Claims about commits and replies, checked under SpecCommit *)

\* the state the owner flow stores for a text received in a state
C_NextState(state) ==
    CASE state = STATE_INITIAL -> STATE_COLLECT_NAME
      [] state = STATE_COLLECT_NAME -> STATE_COLLECT_EMAIL
      [] state = STATE_COLLECT_EMAIL -> STATE_COLLECT_PHONE
      [] state = STATE_COLLECT_PHONE -> STATE_COLLECT_ROLE

C_StateTag(chat_id) ==
    IF C_StateRows(chat_id) = {} THEN STATE_INITIAL
    ELSE (CHOOSE row \in C_StateRows(chat_id) : TRUE).state

\* "Tarefa n concluída" from chat_id marks the last pending item of the
\* instance the webhook reads
C_MarksLast(chat_id, n) ==
    /\ C_ValidMark(chat_id, n)
    /\ maintenance_task_items[C_MarkedIndex(chat_id, n)].status = "pendente"
    /\ \A k \in DOMAIN maintenance_task_items :
          ( /\ k # C_MarkedIndex(chat_id, n)
            /\ maintenance_task_items[k].maintenance_task_id
                 = maintenance_task_items[C_MarkedIndex(chat_id, n)].maintenance_task_id )
          => maintenance_task_items[k].status = "concluída"

\* C27: in the webhook every state change is committed before its reply is
\* sent, and in the driver flow the all-items-completed check runs only
\* after the confirmation reply has been sent: when the reply of a request
\* fails, the change of that request stays (the conversation row has
\* advanced, the item is completed), and when it is the confirmation for
\* the last pending item that fails, no report is triggered in that request.
C27_CommitBeforeReply ==
    [][ \A input \in CommitInputs :
          ( /\ telegram_webhook(input[1], input[2])
            /\ http' # "OK" )
          => /\ \A n \in 1..2 :
                  ( /\ input[2] = TextUpdate(TarefaText(C_Digit(n)))
                    /\ C_MarksLast(input[1], n) )
                  => /\ maintenance_task_items'[C_MarkedIndex(input[1], n)].status
                          = "concluída"
                     /\ reportCalls' = reportCalls
                     /\ pdf' = pdf
             /\ ( /\ C_IsUserChat(input[1])
                  /\ C_StateTag(input[1]) \in {STATE_INITIAL, STATE_COLLECT_NAME,
                                               STATE_COLLECT_EMAIL, STATE_COLLECT_PHONE} )
                  => \E row \in conversation_states' :
                        /\ row.chat_id = input[1]
                        /\ row.state = C_NextState(C_StateTag(input[1])) ]_vars

\* the confirmation for the last pending item of driver 1's instance has
\* failed: the instance is done, the driver has a manager, and no report
\* was triggered and no report file written
C27_Witness ==
    /\ http = "ValueError"
    /\ C_ManagersOf(1) # {}
    /\ \E i \in DOMAIN maintenance_tasks :
          /\ maintenance_tasks[i].motorista_id = 1
          /\ maintenance_tasks[i].date = Today
          /\ C_ItemIndices(maintenance_tasks[i].id) # << >>
          /\ \A k \in DOMAIN maintenance_task_items :
                maintenance_task_items[k].maintenance_task_id = maintenance_tasks[i].id
                => maintenance_task_items[k].status = "concluída"
    /\ reportCalls = << >>
    /\ pdf = {}

-----------------------------------------------------------------------------
(* Claims about references to auxiliary people, checked under SpecPeople *)

C_PersonIds == { auxiliary_people[i].id : i \in DOMAIN auxiliary_people }

\* C28: referential integrity: after any sequence of operations, the bulk
\* replace of an owner's auxiliary people included, every machine's
\* motorista_id, every machine_managers.gerente_id and every
\* maintenance_tasks.motorista_id refers to an existing auxiliary person.
C28_ReferentialIntegrity ==
    /\ \A i \in DOMAIN machines : machines[i].motorista_id \in C_PersonIds
    /\ \A i \in DOMAIN machine_managers :
          machine_managers[i].gerente_id \in C_PersonIds
    /\ \A i \in DOMAIN maintenance_tasks :
          maintenance_tasks[i].motorista_id \in C_PersonIds

-----------------------------------------------------------------------------
(* Claims about chat isolation, checked under SpecCommit *)

\* the items of the instances of the people bound to chat_id
C_ItemsOfChat(chat_id) ==
    { k \in DOMAIN maintenance_task_items :
        \E i \in DOMAIN maintenance_tasks, a \in DOMAIN auxiliary_people :
           /\ auxiliary_people[a].chat_id = chat_id
           /\ maintenance_tasks[i].motorista_id = auxiliary_people[a].id
           /\ maintenance_tasks[i].id
                = maintenance_task_items[k].maintenance_task_id }

\* C29: chat isolation: handling an update for chat id A never inserts,
\* changes or deletes the conversation state row of a different chat id B,
\* and never changes the status of an item belonging to a driver other than
\* the person bound to A.
C29_ChatIsolation ==
    [][ \A input \in CommitInputs :
          telegram_webhook(input[1], input[2])
          => /\ { row \in conversation_states' : row.chat_id # input[1] }
                  = { row \in conversation_states : row.chat_id # input[1] }
             /\ DOMAIN maintenance_task_items' = DOMAIN maintenance_task_items
             /\ \A k \in DOMAIN maintenance_task_items :
                   maintenance_task_items'[k] # maintenance_task_items[k]
                   => k \in C_ItemsOfChat(input[1]) ]_vars

\* both chats have a conversation row, in different states, and driver 3
\* has completed an item while driver 1's items of today are pending
C29_Witness ==
    /\ \E r1, r2 \in conversation_states :
          /\ r1.chat_id = "101"
          /\ r2.chat_id = "102"
          /\ r1.state # r2.state
    /\ \E k \in DOMAIN maintenance_task_items :
          /\ maintenance_task_items[k].status = "concluída"
          /\ \E i \in DOMAIN maintenance_tasks :
                /\ maintenance_tasks[i].id
                     = maintenance_task_items[k].maintenance_task_id
                /\ maintenance_tasks[i].motorista_id = 3
    /\ \E k \in DOMAIN maintenance_task_items :
          \E i \in DOMAIN maintenance_tasks :
             /\ maintenance_tasks[i].id = maintenance_task_items[k].maintenance_task_id
             /\ maintenance_tasks[i].motorista_id = 1
             /\ maintenance_tasks[i].date = Today
    /\ \A k \in DOMAIN maintenance_task_items :
          (\E i \in DOMAIN maintenance_tasks :
             /\ maintenance_tasks[i].id = maintenance_task_items[k].maintenance_task_id
             /\ maintenance_tasks[i].motorista_id = 1)
          => maintenance_task_items[k].status = "pendente"

-----------------------------------------------------------------------------
(* Claims about two requests of one chat in flight, checked under SpecRace *)

\* the column the owner flow stores a text in when it is received in a state
C_FieldOf(state) ==
    CASE state = STATE_COLLECT_NAME -> "new_aux_name"
      [] state = STATE_COLLECT_EMAIL -> "new_aux_email"
      [] state = STATE_COLLECT_PHONE -> "new_aux_phone"

C_CollectStates == { STATE_COLLECT_NAME, STATE_COLLECT_EMAIL, STATE_COLLECT_PHONE }

\* request q writes: the conversation row of its chat, which is in state
\* `state` when the write happens, takes the text into the field of that
\* state, keeps its other fields and moves on by one state
C_ConsumesOneField(q, state) ==
    \E old \in StateRows(requests[q].chat_id) :
       conversation_states' =
          (conversation_states \ { old })
             \cup { [old EXCEPT ![C_FieldOf(state)] = Join(requests[q].text),
                                !.state = C_NextState(state)] }

\* C30: each owner message is consumed as exactly one field and advances
\* the flow by exactly one state, also when two updates of the same chat are
\* handled concurrently: whenever a request that arrived in collect_name,
\* collect_email or collect_phone finishes while the conversation is in one
\* of these states, its text goes into
\* the field of that state and the conversation moves to the next state, so
\* two messages arriving in collect_name end in collect_phone with the
\* first as name and the second as email.
C30_OneFieldPerMessage ==
    [][ \A q \in RequestIds :
           ( /\ requests[q].pc = "read"
             /\ requests'[q].pc = "idle"
             /\ requests[q].user_state \in C_CollectStates
             /\ UserState(requests[q].chat_id) \in C_CollectStates )
           => C_ConsumesOneField(q, UserState(requests[q].chat_id)) ]_vars

=============================================================================
